---- MODULE Spec2Model ----
(***************************************************************************)
(* universal-checker: the tiered content-acquisition pipeline              *)
(* (UrlScraperService, GeminiScraperService, POST /api/check-url) and the  *)
(* hot-reloadable rule set of RulesEngineEnhanced.                         *)
(*                                                                         *)
(* Text is modelled as a sequence of words; s.includes(w) is "w is one of  *)
(* the words of s".  The words are cut so that no word searched for is a   *)
(* proper part of another word of the model.                               *)
(***************************************************************************)
EXTENDS Integers, Sequences, FiniteSets, TLC

VARIABLES
    pc,         \* position of the check-url request: which await it is suspended on
    url,        \* req.body.url
    fetched,    \* how the fetch of tier 1 settled (a response or a rejection)
    log,        \* the trail of scrapeUrl and GeminiScraperService.scrapeUrl: their
                \* console.log calls and the settling of each strategy
    tier1Error, \* cheerioError.message caught by scrapeUrl
    tier2Error, \* geminiError.message caught by scrapeUrl
    result,     \* how scrapeUrl ended: returned content or thrown error
    response,   \* the HTTP response the route sent
    file,       \* the rules file as loadRules last found it
    heap,       \* the Rule[] arrays that are still referenced, by reference
    rules,      \* RulesEngineEnhanced.rules: a reference into heap
    evals,      \* the checkText call of each check request
    activeRules, \* RulesEngineEnhanced.rules as rule objects, for pattern evaluation
    probe,      \* the checkText request whose repeated calls are compared
    probeFirst, \* what the first call of the probe request returned
    lastCall,   \* the most recent checkText call: its arguments and what it returned
    between,    \* another request returned issues since the first probe call
    check,      \* a check request of CheckerService: its position, the issues
                \* its validators found, and the report or failure it ended in
    fieldText,  \* the text given to validateCustomVariables
    fieldIssues, \* what validateCustomVariables returned for it
    page,       \* the document of a file check and the service revision checking it
    pageCheck,  \* what the file check made of it: languages, sections, tagged issues
    anchor,     \* the a element of the document given to validateLinks
    linkIssues, \* what validateLinks returned for it
    description, \* the meta description of the scraped page
    seo,        \* what the SEO checks made of it
    view,       \* the result page: the report it holds and its three filters
    shown,      \* the issue list of its last render
    scan, \* the while loop of checkText over one rule: its RegExp, the text, lastIndex
    pushed \* how many issues that loop has pushed, counted up to MaxPushed

vars == <<pc, url, fetched, log, tier1Error, tier2Error, result, response,
          file, heap, rules, evals,
          activeRules, probe, probeFirst, lastCall, between,
          check, fieldText, fieldIssues,
          page, pageCheck, anchor, linkIssues, description, seo,
          view, shown, scan, pushed>>

scrapeVars == <<pc, url, fetched, log, tier1Error, tier2Error, result, response>>
rulesVars == <<file, heap, rules, evals>>
engineVars == <<activeRules, probe, probeFirst, lastCall, between>>
fieldVars == <<fieldText, fieldIssues>>
\* the pattern engine, the aggregator and the merge-field validator
checkVars == <<engineVars, check, fieldVars>>
pageVars == <<page, pageCheck>>
linkVars == <<anchor, linkIssues>>
seoVars == <<description, seo>>
viewVars == <<view, shown>>
\* the language tagging of a file check, the link validator, the SEO checks,
scanVars == <<scan, pushed>>
\* the file check, the link validator, the SEO checks, the result page, the match loop
moreVars == <<pageVars, linkVars, seoVars, viewVars, scanVars>>

NoText == <<>>

(***************************************************************************)
(* Strings                                                                 *)
(***************************************************************************)

\* String.prototype.includes
Includes(s, w) == \E i \in 1..Len(s) : s[i] = w

\* the lower-case form of one word
LowerWord(w) ==
    CASE w = "Forbidden" -> "forbidden"
      [] w = "Blocked" -> "blocked"
      [] w = "CLOUDFLARE" -> "cloudflare"
      [] w = "Cloudflare" -> "cloudflare"
      [] w = "Captcha" -> "captcha"
      [] w = "Access Denied" -> "access denied"
      [] w = "Invalid URL" -> "invalid url"
      [] w = "MANUAL_PASTE_REQUIRED" -> "manual_paste_required"
      [] w = "Too Many Requests" -> "too many requests"
      [] w = "Not Found" -> "not found"
      [] w = "Service Unavailable" -> "service unavailable"
      [] w = "OK" -> "ok"
      [] w = "HTTP " -> "http "
      [] w = "AED500" -> "aed500"
      [] w = "Bank" -> "bank"
      [] w = "Promo Code" -> "promo code"
      [] w = "PROMO CODE" -> "promo code"
      [] w = "EN" -> "en"
      [] w = "High" -> "high"
      [] OTHER -> w

\* String.prototype.toLowerCase
ToLowerCase(s) == [i \in 1..Len(s) |-> LowerWord(s[i])]

\* String.prototype.trim, then .length === 0
TrimIsEmpty(s) == \A i \in 1..Len(s) : s[i] = " "

(***************************************************************************)
(* Inputs: what the caller, the remote server and the extraction           *)
(* collaborator can send                                                   *)
(***************************************************************************)

Origin == "https://example.com/"

\* last path segment of a well-formed URL
UrlPaths == {"page", "403", "captcha", "MANUAL_PASTE_REQUIRED"}

GoodUrls == {<<Origin, p>> : p \in UrlPaths}

\* req.body.url: absent or empty, blank, not parseable, or well-formed
RequestUrls == {<<>>, <<" ">>, <<"not a url">>} \cup GoodUrls

\* new URL(url) does not throw
IsValidUrl(u) == Len(u) >= 1 /\ u[1] = Origin

Statuses == {200, 403, 404, 429, 503}

\* response.statusText is whatever reason phrase the server sends (empty on HTTP/2)
StatusTexts == {"", "OK", "Forbidden", "Not Found", "Too Many Requests",
                "Service Unavailable", "Invalid URL", "MANUAL_PASTE_REQUIRED"}

\* the Content-Type header; <<>> when the header is missing
ContentTypes == {<<"text/html", "; charset=utf-8">>, <<"application/json">>,
                 <<"application/x-", "blocked">>,
                 <<"application/x-", "MANUAL_PASTE_REQUIRED">>, <<>>}

Bodies == {<<"<main>", "Welcome", "</main>">>,
           <<"cf-browser-verification">>,
           <<"Checking your browser">>,
           <<"cloudflare">>,
           <<"cloudflare", "challenge-platform">>,
           <<"Just a moment...">>}

Responses == [status : Statuses, statusText : StatusTexts,
              contentType : ContentTypes, body : Bodies]

\* Rejections of fetch(): cause is what happened on the network, code / name /
\* message are what the error object carries.
FetchErrors(u) ==
    { [cause |-> "dns", code |-> "ENOTFOUND", name |-> "FetchError",
       message |-> <<"request to ">> \o u \o <<" failed, reason: getaddrinfo ENOTFOUND">>],
      [cause |-> "dns", code |-> "EAI_AGAIN", name |-> "FetchError",
       message |-> <<"request to ">> \o u \o <<" failed, reason: getaddrinfo EAI_AGAIN">>],
      [cause |-> "refused", code |-> "ECONNREFUSED", name |-> "FetchError",
       message |-> <<"request to ">> \o u \o <<" failed, reason: connect ECONNREFUSED">>],
      [cause |-> "reset", code |-> "ECONNRESET", name |-> "FetchError",
       message |-> <<"request to ">> \o u \o <<" failed, reason: socket hang up">>] }

\* What the fetch rejects with when its timeout option expires
TimeoutErrors(u) ==
    { [cause |-> "timeout", code |-> "NONE", name |-> "AbortError",
       message |-> <<"The user aborted a request.">>],
      [cause |-> "timeout", code |-> "NONE", name |-> "FetchError",
       message |-> <<"network timeout at: ">> \o u] }

\* The value a field of the collaborator's JSON reply can have where the
\* code expects an array
FieldShapes == {"absent", "array", "string"}

\* How model.generateContent settles: rejected, text without a JSON object,
\* text whose braces do not parse, or a parsed object
Replies ==
    { [kind |-> "api_error", h1 |-> "absent", links |-> "absent"],
      [kind |-> "no_json", h1 |-> "absent", links |-> "absent"],
      [kind |-> "bad_json", h1 |-> "absent", links |-> "absent"] }
    \cup [kind : {"json"}, h1 : FieldShapes, links : FieldShapes]

\* how urlCheckerService.checkUrl settles
CheckerOutcomes == {"report", "save_failed"}

(***************************************************************************)
(* UrlScraperService: tier 1                                               *)
(***************************************************************************)

\* the options scrapeWithCheerio passes to fetch
FetchOptions == [redirect |-> "follow", timeout |-> 15000]

\* isCloudflareChallenge(html): a || b || (c && d) || e
isCloudflareChallenge(html) ==
    \/ Includes(html, "cf-browser-verification")
    \/ Includes(html, "Checking your browser")
    \/ (Includes(html, "cloudflare") /\ Includes(html, "challenge-platform"))
    \/ Includes(html, "Just a moment...")

\* variant: every tier-1 failure is taken for a block
EscalatesEveryError(message) == TRUE

\* variant: only the Cloudflare wording is recognised
RecognisesCloudflareOnly(message) ==
    LET errorMessage == ToLowerCase(message) IN
    \/ Includes(errorMessage, "cloudflare")
    \/ Includes(errorMessage, "challenge")

\* isCloudflareOrJSError(error), on error.message
isCloudflareOrJSError(message) ==
    LET errorMessage == ToLowerCase(message) IN
    \/ Includes(errorMessage, "cloudflare")
    \/ Includes(errorMessage, "403")
    \/ Includes(errorMessage, "forbidden")
    \/ Includes(errorMessage, "challenge")
    \/ Includes(errorMessage, "captcha")
    \/ Includes(errorMessage, "blocked")
    \/ Includes(errorMessage, "access denied")

Thrown(message) == [code |-> "NONE", name |-> "Error", message |-> message]

\* the catch block of scrapeWithCheerio: the message of the error it throws on
FriendlyError(error) ==
    IF error.code = "ENOTFOUND"
    THEN <<"URL not found. Please check the URL and try again.">>
    ELSE IF error.code = "ECONNREFUSED"
    THEN <<"Connection refused. The server may be down.">>
    ELSE IF error.name = "AbortError"
    THEN <<"Request timeout. The page took too long to load.">>
    ELSE IF Includes(error.message, "Invalid URL")
    THEN <<"Invalid URL", " format. Please provide a valid URL.">>
    ELSE error.message

Failure(message) == [ok |-> FALSE, message |-> message, content |-> [method |-> "none", statusCode |-> 0, html |-> NoText]]
Success(content) == [ok |-> TRUE, message |-> NoText, content |-> content]

\* the body of scrapeWithCheerio's try block once fetch has resolved with r
CheerioTry(r) ==
    IF ~(r.status >= 200 /\ r.status <= 299)
    THEN Failure(FriendlyError(Thrown(<<"HTTP ", ToString(r.status), ": ", r.statusText>>)))
    ELSE IF ~Includes(r.contentType, "text/html")
    THEN Failure(FriendlyError(Thrown(
             <<"URL did not return HTML content (received: ">> \o r.contentType \o <<")">>)))
    ELSE IF isCloudflareChallenge(r.body)
    THEN Failure(FriendlyError(Thrown(
             <<"CLOUDFLARE", "_DETECTED: Site is protected by ", "Cloudflare">>)))
    ELSE Success([method |-> "cheerio", statusCode |-> r.status, html |-> r.body])

\* scrapeWithCheerio(url) from the point where the fetch settled
scrapeWithCheerio(settled) ==
    IF settled.type = "response"
    THEN CheerioTry(settled.resp)
    ELSE Failure(FriendlyError(settled.err))

(***************************************************************************)
(* GeminiScraperService                                                    *)
(***************************************************************************)

\* generateContent(prompt) is called with the prompt alone; these are the
\* parameters given to getGenerativeModel
GenerateContentOptions == [model |-> "gemini-2.0-flash", temperature |-> "0.1"]

\* a call made with these options is given up after a set time
HasTimeout(options) == "timeout" \in DOMAIN options

\* extracted.h1 || []
OrEmptyArray(shape) == IF shape = "absent" THEN "array" ELSE shape

\* the message of the error the try block of a strategy ends with, NoText when
\* it returns content
ExtractionError(reply, strategy) ==
    CASE reply.kind = "api_error" -> <<"[GoogleGenerativeAI Error]: fetch failed">>
      [] reply.kind = "no_json" ->
            IF strategy = "gemini-url-context"
            THEN <<"No valid JSON found in Gemini response">>
            ELSE <<"No valid JSON found in Gemini Search response">>
      [] reply.kind = "bad_json" -> <<"Unexpected token in JSON">>
      [] OTHER -> NoText

\* scrapeWithURLContext / scrapeWithGoogleSearch once generateContent settled
GeminiStrategy(reply, strategy) ==
    IF reply.kind # "json"
    THEN [ok |-> FALSE,
          message |-> <<IF strategy = "gemini-url-context"
                        THEN "URL Context extraction failed: "
                        ELSE "Google Search grounding failed: ">>
                      \o ExtractionError(reply, strategy),
          content |-> [method |-> "none", h1 |-> "array", links |-> "array"]]
    ELSE [ok |-> TRUE, message |-> NoText,
          content |-> [method |-> strategy,
                       h1 |-> OrEmptyArray(reply.h1),
                       links |-> OrEmptyArray(reply.links)]]

\* parseToHTML(content) throws when forEach is called on a value that is no array
ParseToHTMLThrows(content) == content.h1 # "array" \/ content.links # "array"

\* the Error thrown by the tier-2 catch of UrlScraperService.scrapeUrl
ManualPasteMessage ==
    <<"MANUAL_PASTE_REQUIRED",
      ": Unable to scrape this URL automatically. This site may have strong anti-bot protection. Please copy the page HTML manually and paste it, or try again later.">>

\* variant: the tier-2 error is passed on as it is
Tier2CatchRethrows(geminiErrorMessage) == geminiErrorMessage

\* the catch (geminiError) block of UrlScraperService.scrapeUrl: what it throws
Tier2Catch(geminiErrorMessage) == ManualPasteMessage

(***************************************************************************)
(* POST /api/check-url                                                     *)
(***************************************************************************)

NoResponse == [status |-> 0, error |-> NoText, message |-> NoText, method |-> "none", tier |-> 0]

NoResult == [kind |-> "none", method |-> "none", message |-> NoText]

\* the catch block of the route
RouteCatch(message) ==
    IF Includes(message, "MANUAL_PASTE_REQUIRED")
    THEN [status |-> 422, error |-> <<"MANUAL_PASTE_REQUIRED">>, message |-> message,
          method |-> "none", tier |-> 0]
    ELSE [status |-> 500, error |-> message, message |-> <<"Failed to check URL">>,
          method |-> "none", tier |-> 0]

\* variant: meta.tier told from 'cheerio' alone, every other method falling to
\* the last arm of the conditional
TierOfCheerioOnly(method) == IF method = "cheerio" THEN 1 ELSE 3

\* meta.tier of a successful response
TierOf(method) ==
    IF method = "cheerio" THEN 1
    ELSE IF method \in {"gemini-url-context", "gemini-search"} THEN 2
    ELSE 3

RouteSuccess(method) ==
    [status |-> 200, error |-> NoText, message |-> NoText, method |-> method,
     tier |-> TierOf(method)]

(***************************************************************************)
(* The check-url request as a state machine: one action per stretch of     *)
(* code between two awaits                                                 *)
(***************************************************************************)

\* the awaits of the acquisition pipeline that wait for the network
NetworkCalls == {"fetch", "urlctx", "search"}

OptionsOf(call) == IF call = "fetch" THEN FetchOptions ELSE GenerateContentOptions

ScrapeInit ==
    /\ pc = "idle"
    /\ url = NoText
    /\ fetched = [type |-> "none"]
    /\ log = <<>>
    /\ tier1Error = NoText
    /\ tier2Error = NoText
    /\ result = NoResult
    /\ response = NoResponse

BadRequest(error) ==
    [status |-> 400, error |-> error, message |-> NoText, method |-> "none", tier |-> 0]

\* POST /check-url up to the first await: the route's validation, then
\* scrapeUrl and scrapeWithCheerio up to await fetch(url, ...)
Receive(u) ==
    /\ pc = "idle"
    /\ url' = u
    /\ IF Len(u) = 0 \/ TrimIsEmpty(u)
       THEN /\ response' = BadRequest(<<"No URL provided">>)
            /\ pc' = "done"
            /\ log' = log
       ELSE IF ~IsValidUrl(u)
       THEN /\ response' = BadRequest(<<"Invalid URL format">>)
            /\ pc' = "done"
            /\ log' = log
       ELSE /\ response' = response
            /\ pc' = "fetch"
            /\ log' = log \o <<"START", "T1_TRY", "FETCH">>
    /\ UNCHANGED <<fetched, tier1Error, tier2Error, result, rulesVars, checkVars, moreVars>>

\* scrapeUrl throws to the route, whose catch block answers
ScrapeThrows(message) ==
    /\ result' = [kind |-> "error", method |-> "none", message |-> message]
    /\ response' = RouteCatch(message)
    /\ pc' = "done"

\* scrapeUrl returns content to the route, which awaits urlCheckerService.checkUrl
ScrapeReturns(method) ==
    /\ result' = [kind |-> "success", method |-> method, message |-> NoText]
    /\ response' = response
    /\ pc' = "checker"

\* scrapeUrl from the point where scrapeWithCheerio settled: lines 37-85
Tier1Settles(settled) ==
    LET r == scrapeWithCheerio(settled) IN
    /\ fetched' = settled
    /\ IF r.ok
       THEN /\ ScrapeReturns(r.content.method)
            /\ log' = log \o <<"T1_OK">>
            /\ tier1Error' = tier1Error
       ELSE /\ tier1Error' = r.message
            /\ IF isCloudflareOrJSError(r.message)
               THEN /\ pc' = "urlctx"
                    /\ log' = log \o <<"T1_FAIL", "T2_TRY", "CTX_TRY">>
                    /\ UNCHANGED <<result, response>>
               ELSE /\ ScrapeThrows(r.message)
                    /\ log' = log \o <<"T1_FAIL">>
    /\ UNCHANGED <<url, tier2Error, rulesVars, checkVars, moreVars>>

\* the remote server answers the fetch
FetchResolves ==
    /\ pc = "fetch"
    /\ \E r \in Responses : Tier1Settles([type |-> "response", resp |-> r])

\* the fetch fails on the network
FetchRejects ==
    /\ pc = "fetch"
    /\ \E e \in FetchErrors(url) : Tier1Settles([type |-> "rejected", err |-> e])

\* the tier-2 try block of UrlScraperService.scrapeUrl fails: lines 71-79;
\* trail is the log so far
Tier2Fails(message, trail) ==
    /\ tier2Error' = message
    /\ log' = trail \o <<"T2_FAIL">>
    /\ ScrapeThrows(Tier2Catch(message))

\* geminiScraperService.scrapeUrl returned: lines 48-70 of UrlScraperService.scrapeUrl
Tier2Returns(content, trail) ==
    IF ParseToHTMLThrows(content)
    THEN Tier2Fails(<<"forEach is not a function">>, trail)
    ELSE /\ ScrapeReturns(content.method)
         /\ log' = trail \o <<"T2_OK">>
         /\ tier2Error' = tier2Error

\* GeminiScraperService.scrapeUrl once the URL Context call settled
UrlContextSettles(reply) ==
    LET g == GeminiStrategy(reply, "gemini-url-context") IN
    /\ pc = "urlctx"
    /\ IF g.ok
       THEN Tier2Returns(g.content, log \o <<"CTX_OK">>)
       ELSE /\ pc' = "search"
            /\ log' = log \o <<"CTX_FAIL", "SEARCH_TRY">>
            /\ UNCHANGED <<result, response, tier2Error>>
    /\ UNCHANGED <<url, fetched, tier1Error, rulesVars, checkVars, moreVars>>

\* GeminiScraperService.scrapeUrl once the Google Search call settled
SearchSettles(reply) ==
    LET g == GeminiStrategy(reply, "gemini-search") IN
    /\ pc = "search"
    /\ IF g.ok
       THEN Tier2Returns(g.content, log \o <<"SEARCH_OK">>)
       ELSE Tier2Fails(<<"Gemini scraping failed: ">> \o g.message,
                       log \o <<"SEARCH_FAIL">>)
    /\ UNCHANGED <<url, fetched, tier1Error, rulesVars, checkVars, moreVars>>

UrlContextAnswers == \E reply \in Replies : UrlContextSettles(reply)

SearchAnswers == \E reply \in Replies : SearchSettles(reply)

\* the timeout of a pending network call expires, for the calls that have one
TimerFires ==
    /\ pc \in NetworkCalls
    /\ HasTimeout(OptionsOf(pc))
    /\ IF pc = "fetch"
       THEN \E e \in TimeoutErrors(url) : Tier1Settles([type |-> "rejected", err |-> e])
       ELSE IF pc = "urlctx"
       THEN UrlContextSettles([kind |-> "api_error", h1 |-> "absent", links |-> "absent"])
       ELSE SearchSettles([kind |-> "api_error", h1 |-> "absent", links |-> "absent"])

\* the route from the point where urlCheckerService.checkUrl settled
CheckerSettles ==
    /\ pc = "checker"
    /\ \E o \in CheckerOutcomes :
          response' = IF o = "report"
                      THEN RouteSuccess(result.method)
                      ELSE RouteCatch(<<"URL check failed: ", "ENOSPC: no space left on device">>)
    /\ pc' = "done"
    /\ UNCHANGED <<url, fetched, log, tier1Error, tier2Error, result, rulesVars, checkVars, moreVars>>

ScrapeNext ==
    \/ \E u \in RequestUrls : Receive(u)
    \/ FetchResolves
    \/ FetchRejects
    \/ TimerFires
    \/ UrlContextAnswers
    \/ SearchAnswers
    \/ CheckerSettles

(***************************************************************************)
(* RulesEngineEnhanced: the rule list and its hot reload.  A Rule[] is an  *)
(* object on the heap; this.rules and the iterator of a for...of loop hold *)
(* references to it.  checkText and loadRules are synchronous, so Node     *)
(* runs each to completion; the model lets a reload fall between any two   *)
(* iterations of a checkText loop, which includes every schedule Node has. *)
(***************************************************************************)

\* longest rule list of a rules file
MaxRules == 2

RuleIds == {"r1", "r2", "r3"}

\* the check request whose checkText call is followed; when the call returns
\* the next request takes its place
Requests == {"q1"}

\* the text a request passes to checkText
Texts == {NoText, <<" ">>, <<"Welcome">>}

Range(f) == {f[i] : i \in DOMAIN f}

RuleLists ==
    UNION {{l \in [1..n -> RuleIds] : Cardinality(Range(l)) = n} : n \in 0..MaxRules}

\* the rules file when loadRules reads it: absent, not parseable as YAML, a
\* document without a rules key, or a document with a rules list
FileStates ==
    {[kind |-> "missing", rules |-> <<>>], [kind |-> "unparsable", rules |-> <<>>],
     [kind |-> "no_rules_key", rules |-> <<>>]}
    \cup [kind : {"rules"}, rules : RuleLists]

\* variant: a read that fails leaves the array in force as it is
LoadedRulesOrPrevious(f) ==
    IF f.kind \in {"missing", "unparsable"} THEN heap[rules]
    ELSE IF f.kind = "no_rules_key" THEN <<>>
    ELSE f.rules

\* the array loadRules assigns to this.rules: lines 77-90
LoadedRules(f) ==
    IF f.kind = "missing" THEN <<>>
    ELSE IF f.kind = "unparsable" THEN <<>>
    ELSE IF f.kind = "no_rules_key" THEN <<>>
    ELSE f.rules

NewEval == [state |-> "new", arr |-> 0, idx |-> 0, seen |-> <<>>, before |-> <<>>,
            overtaken |-> FALSE]

\* the references held by this.rules (r) and by the running loops of e
Live(r, e) == {r} \cup {e[q].arr : q \in {x \in Requests : e[x].state = "running"}}

\* a reference no live array has
FreshRef(h) == CHOOSE n \in 1..(Cardinality(DOMAIN h) + 1) : n \notin DOMAIN h

\* a reload that falls inside a running loop is noted in that call's record
NoteReload(e) ==
    [q \in Requests |-> IF e[q].state = "running"
                        THEN [e[q] EXCEPT !.overtaken = TRUE] ELSE e[q]]

\* variant: the array this.rules refers to is refilled in place
loadRulesInPlace(f) ==
    /\ file' = f
    /\ heap' = [heap EXCEPT ![rules] = LoadedRules(f)]
    /\ rules' = rules
    /\ evals' = NoteReload(evals)

\* loadRules(): this.rules = <a new array>; f is the file as it is found
loadRules(f) ==
    LET ref == FreshRef(heap)
        kept == Live(ref, evals) IN
    /\ file' = f
    /\ rules' = ref
    /\ heap' = [r \in kept |-> IF r = ref THEN LoadedRules(f) ELSE heap[r]]
    /\ evals' = NoteReload(evals)

\* POST /api/rules/reload -> reload() -> loadRules()
Reload ==
    /\ \E f \in FileStates : loadRules(f)
    /\ UNCHANGED <<scrapeVars, checkVars, moreVars>>

\* checkText(text, contentType) up to the first iteration of for (const rule of this.rules)
StartCheck(q, text) ==
    /\ evals[q].state = "new"
    /\ evals' = [evals EXCEPT ![q] =
                    IF Len(text) = 0 \/ TrimIsEmpty(text)
                    THEN NewEval
                    ELSE [@ EXCEPT !.state = "running", !.arr = rules,
                                   !.before = heap[rules]]]
    /\ UNCHANGED <<file, heap, rules, scrapeVars, checkVars, moreVars>>

\* one iteration of the loop: the array iterator reads the next element of the
\* array it was created on, or finds the end and checkText returns (the
\* call's record is then cleared for the next request)
StepCheck(q) ==
    LET e == evals[q] IN
    /\ e.state = "running"
    /\ IF e.idx < Len(heap[e.arr])
       THEN /\ evals' = [evals EXCEPT ![q] =
                            [@ EXCEPT !.idx = e.idx + 1,
                                      !.seen = Append(e.seen, heap[e.arr][e.idx + 1])]]
            /\ heap' = heap
       ELSE /\ evals' = [evals EXCEPT ![q] = NewEval]
            /\ heap' = [r \in Live(rules, evals') |-> heap[r]]
    /\ UNCHANGED <<file, rules, scrapeVars, checkVars, moreVars>>

RulesNext ==
    \/ Reload
    \/ \E q \in Requests, text \in Texts : StartCheck(q, text)
    \/ \E q \in Requests : StepCheck(q)

\* after construction with no rules file present
RulesInit ==
    /\ file = [kind |-> "missing", rules |-> <<>>]
    /\ rules = 1
    /\ heap = [r \in {1} |-> <<>>]
    /\ evals = [q \in Requests |-> NewEval]

(***************************************************************************)
(* RulesEngineEnhanced.checkText: pattern evaluation                       *)
(*                                                                         *)
(* Each word of a text has a length in characters; a position is a         *)
(* character offset, as match.index is.  A pattern of the catalogue        *)
(* matches one word, without regard to case (flags 'gi').                  *)
(***************************************************************************)

\* characters of context on each side of a match: isException, lines 854-855
ContextChars == 100

\* String.prototype.length of one word (lorem<n> is n characters of running text)
CharLen(w) ==
    CASE w \in {"AED500", "aed500"} -> 6
      [] w \in {"Bank", "bank"} -> 4
      [] w \in {"Promo Code", "PROMO CODE", "promo code"} -> 10
      [] w = "lorem90" -> 90
      [] w = "lorem91" -> 91
      [] w \in {"<html lang='EN'>", "<html lang='ar'>", "<html lang='fr'>"} -> 16
      [] w = "<a name='m_arabic'>" -> 19
      [] w = "<td dir='rtl'>" -> 14
      [] w = "<table>" -> 7
      [] w \in {"marhaban", "Hello"} -> 5
      [] w = "2024" -> 4
      [] OTHER -> 1

Max(a, b) == IF a >= b THEN a ELSE b

Min(a, b) == IF a <= b THEN a ELSE b

\* String.prototype.length
RECURSIVE TextLength(_)
TextLength(text) ==
    IF text = <<>> THEN 0 ELSE CharLen(Head(text)) + TextLength(Tail(text))

\* the character offset at which word i of the text begins
Offset(text, i) == TextLength(SubSeq(text, 1, i - 1))

\* what is left of a word that a slice cuts through
Fragment == "~"

\* String.prototype.slice(start, end)
Slice(text, start, end) ==
    LET touched == {i \in 1..Len(text) :
                       /\ Offset(text, i) < end
                       /\ Offset(text, i) + CharLen(text[i]) > start}
        whole(i) == /\ Offset(text, i) >= start
                    /\ Offset(text, i) + CharLen(text[i]) <= end
    IN  [k \in 1..Cardinality(touched) |->
            LET i == (CHOOSE m \in touched : \A n \in touched : m <= n) + k - 1
            IN  IF whole(i) THEN text[i] ELSE Fragment]

\* a field of a rule that the rules file may leave out
Absent == [has |-> FALSE, list |-> <<>>]

Listed(l) == [has |-> TRUE, list |-> l]

\* patterns that new RegExp(pattern, 'gi') rejects with a SyntaxError
BadPatterns == {"("}

\* the rules a rules file is made of (interface Rule, lines 20-30)
Catalogue ==
    { [id |-> "amount_001", category |-> <<"numerical", "_format">>, severity |-> "high",
       pattern |-> "aed500", applies_to |-> Absent,
       context_exceptions |-> Listed(<<"Promo Code">>)],
      [id |-> "amount_002", category |-> <<"numerical", "_format">>, severity |-> "low",
       pattern |-> "AED500", applies_to |-> Listed(<<>>),
       context_exceptions |-> Absent],
      [id |-> "bank_002", category |-> <<"brand_name">>, severity |-> "high",
       pattern |-> "Bank", applies_to |-> Listed(<<"edm", "website">>),
       context_exceptions |-> Listed(<<"terms", "PROMO CODE">>)],
      [id |-> "broken_001", category |-> <<"brand_name">>, severity |-> "critical",
       pattern |-> "(", applies_to |-> Absent,
       context_exceptions |-> Absent] }

\* the rule lists a rules file can hold
RuleSets ==
    UNION {{l \in [1..n -> Catalogue] : Cardinality(Range(l)) = n} : n \in 0..MaxRules}

\* the content-type tags callers pass: 'edm' (default of /check-text), 'web'
\* (default of url-checker checkUrl), 'website' (checker.service checkUrl)
ContentTags == {"edm", "web", "website"}

\* the texts given to checkText
EngineTexts ==
    { <<" ">>,
      <<"AED500", " ", "Bank">>,
      <<"AED500", "lorem90", "PROMO CODE">>,
      <<"AED500", "lorem91", "PROMO CODE">>,
      <<"Promo Code", "lorem90", "aed500", "lorem91", "AED500">>,
      <<"Bank", " ", "promo code", " ", "bank">> }

\* variant: one list is kept by the engine and appended to by every call
KeptIssues(left) == left

\* const issues: Issue[] = [] (line 101): every call starts on a new list;
\* left is the list the call before it returned
FreshIssues(left) == <<>>

\* rule.applies_to || ['edm', 'web', 'social', 'document']
AppliesTo(rule) ==
    IF rule.applies_to.has THEN rule.applies_to.list
    ELSE <<"edm", "web", "social", "document">>

\* new RegExp(rule.pattern, 'gi') returns
Compiles(pattern) == pattern \notin BadPatterns

\* the regular expression accepts the word
Matches(pattern, w) == LowerWord(w) = LowerWord(pattern)

\* the matches that repeated regex.exec(text) finds, from left to right
RECURSIVE ExecFrom(_, _, _)
ExecFrom(pattern, text, i) ==
    IF i > Len(text) THEN <<>>
    ELSE IF Matches(pattern, text[i])
         THEN <<[index |-> Offset(text, i), word |-> text[i]]>>
                  \o ExecFrom(pattern, text, i + 1)
         ELSE ExecFrom(pattern, text, i + 1)

\* variant: an exception anywhere in the text vetoes every match
isExceptionAnywhere(text, match, exceptions) ==
    \E k \in 1..Len(exceptions) : Includes(ToLowerCase(text), LowerWord(exceptions[k]))

\* isException(text, match, exceptions)
isException(text, match, exceptions) ==
    IF Len(exceptions) = 0 THEN FALSE
    ELSE LET start == Max(0, match.index - ContextChars)
             end == Min(TextLength(text),
                        match.index + CharLen(match.word) + ContextChars)
             context == ToLowerCase(Slice(text, start, end))
         IN  \E k \in 1..Len(exceptions) : Includes(context, LowerWord(exceptions[k]))

\* rule.context_exceptions || []
Exceptions(rule) ==
    IF rule.context_exceptions.has THEN rule.context_exceptions.list ELSE <<>>

\* the Issue pushed for a match
IssueFor(rule, match) ==
    [rule_id |-> rule.id, type |-> "brand_compliance", category |-> rule.category,
     severity |-> rule.severity, original |-> match.word, position |-> match.index,
     length |-> CharLen(match.word)]

\* the while loop over the matches of one rule: the issues it pushes
RECURSIVE MatchLoop(_, _, _)
MatchLoop(rule, text, matches) ==
    IF matches = <<>> THEN <<>>
    ELSE IF isException(text, Head(matches), Exceptions(rule))
         THEN MatchLoop(rule, text, Tail(matches))
         ELSE <<IssueFor(rule, Head(matches))>> \o MatchLoop(rule, text, Tail(matches))

\* the try block for one rule: whether it threw, and the issues it pushed
TryRule(rule, text, contentType) ==
    IF ~Includes(AppliesTo(rule), contentType) THEN [threw |-> FALSE, issues |-> <<>>]
    ELSE IF ~Compiles(rule.pattern) THEN [threw |-> TRUE, issues |-> <<>>]
    ELSE [threw |-> FALSE,
          issues |-> MatchLoop(rule, text, ExecFrom(rule.pattern, text, 1))]

\* variant: no catch block around the rule
RethrowRuleError(outcome) == outcome

\* catch (error) { console.error(...) }: the error ends with the rule
CatchRuleError(outcome) == [outcome EXCEPT !.threw = FALSE]

\* for (const rule of this.rules) { try { ... } catch { ... } }
RECURSIVE ForEachRule(_, _, _, _)
ForEachRule(rs, text, contentType, issues) ==
    IF rs = <<>> THEN [threw |-> FALSE, issues |-> issues]
    ELSE LET outcome == CatchRuleError(TryRule(Head(rs), text, contentType))
         IN  IF outcome.threw THEN [threw |-> TRUE, issues |-> <<>>]
             ELSE ForEachRule(Tail(rs), text, contentType, issues \o outcome.issues)

\* checkText(text, contentType) over the rule list rs
checkText(rs, text, contentType, left) ==
    LET issues == FreshIssues(left) IN
    IF Len(text) = 0 \/ TrimIsEmpty(text) THEN [threw |-> FALSE, issues |-> issues]
    ELSE ForEachRule(rs, text, contentType, issues)

NoCall == [made |-> FALSE, text |-> <<>>, contentType |-> "edm", threw |-> FALSE,
           issues |-> <<>>]

NoReturn == [made |-> FALSE, threw |-> FALSE, issues |-> <<>>]

IsProbe(text, contentType) == text = probe.text /\ contentType = probe.contentType

\* one call of rulesEngine.checkText, from entry to return
CallCheckText(text, contentType) ==
    LET r == checkText(activeRules, text, contentType, lastCall.issues) IN
    /\ lastCall' = [made |-> TRUE, text |-> text, contentType |-> contentType,
                    threw |-> r.threw, issues |-> r.issues]
    /\ IF IsProbe(text, contentType) /\ ~probeFirst.made
       THEN /\ probeFirst' = [made |-> TRUE, threw |-> r.threw, issues |-> r.issues]
            /\ between' = FALSE
       ELSE /\ probeFirst' = probeFirst
            /\ between' = (between \/ (/\ probeFirst.made
                                       /\ ~IsProbe(text, contentType)
                                       /\ r.issues # <<>>))
    /\ UNCHANGED <<activeRules, probe, check, fieldVars, scrapeVars, rulesVars, moreVars>>

EngineNext == \E text \in EngineTexts, contentType \in ContentTags :
                  CallCheckText(text, contentType)

\* the engine after construction with no rules file, no call made
EngineIdle ==
    /\ activeRules = <<>>
    /\ probe = [text |-> <<>>, contentType |-> "edm"]
    /\ probeFirst = NoReturn
    /\ lastCall = NoCall
    /\ between = FALSE

\* the engine after loadRules read a rules file (every rule of the file is
\* kept; no pattern is compiled at load), with the request to observe
EngineInit ==
    /\ activeRules \in RuleSets
    /\ probe \in [text : EngineTexts, contentType : ContentTags]
    /\ probeFirst = NoReturn
    /\ lastCall = NoCall
    /\ between = FALSE

(***************************************************************************)
(* RulesEngineEnhanced.validateCustomVariables: merge-field tokens         *)
(*                                                                         *)
(* A token is "[Field:" ws name trail "]": ws is the white space after the *)
(* colon, name begins and ends with a character that is not white space    *)
(* (or is empty), trail says whether a space follows the name.             *)
(***************************************************************************)

\* most tokens in a text
MaxTokens == 2

\* the white space between the colon and the name
Spacings == {<<>>, <<" ">>, <<" ", " ">>, <<"\t">>}

FieldNames == {"Last Name", "last name", "lastname", "LastName", "Nickname", ""}

\* a token without a name has its white space in ws
Tokens == {t \in [ws : Spacings, name : FieldNames, trail : BOOLEAN] :
              t.name = "" => ~t.trail}

FieldTexts == UNION {[1..n -> Tokens] : n \in 0..MaxTokens}

\* const allowedVariables, lines 698-720
allowedVariables ==
    <<"First Name", "Last Name", "Pseudo ID", "Email", "Phone",
      "Customer CIF - Masked", "Personalization Field1", "Personalization Field2",
      "Personalization Field3", "Personalization Field4", "Customer CIF",
      "Customer Name", "Account Number", "Card Number", "Mobile Number",
      "Branch Name", "Offer Date", "Expiry Date">>

\* String.prototype.toLowerCase of a variable name
LowerName(n) ==
    CASE n = "First Name" -> "first name"
      [] n = "Last Name" -> "last name"
      [] n = "LastName" -> "lastname"
      [] n = "Nickname" -> "nickname"
      [] n = "Pseudo ID" -> "pseudo id"
      [] n = "Email" -> "email"
      [] n = "Phone" -> "phone"
      [] n = "Customer CIF - Masked" -> "customer cif - masked"
      [] n = "Personalization Field1" -> "personalization field1"
      [] n = "Personalization Field2" -> "personalization field2"
      [] n = "Personalization Field3" -> "personalization field3"
      [] n = "Personalization Field4" -> "personalization field4"
      [] n = "Customer CIF" -> "customer cif"
      [] n = "Customer Name" -> "customer name"
      [] n = "Account Number" -> "account number"
      [] n = "Card Number" -> "card number"
      [] n = "Mobile Number" -> "mobile number"
      [] n = "Branch Name" -> "branch name"
      [] n = "Offer Date" -> "offer date"
      [] n = "Expiry Date" -> "expiry date"
      [] OTHER -> n

\* the characters of a token
Render(t) ==
    <<"[Field:">> \o t.ws \o (IF t.name = "" THEN <<>> ELSE <<t.name>>)
                  \o (IF t.trail THEN <<" ">> ELSE <<>>) \o <<"]">>

\* the template literal `[Field: ${name}]`
FieldTemplate(name) == <<"[Field:", " ">> \o (IF name = "" THEN <<>> ELSE <<name>>) \o <<"]">>

\* incorrectPattern /\[Field:(?!\s)([^\]]+)\]/g matches the token
incorrectPattern(t) == t.ws = <<>> /\ t.name # ""

\* validPattern /\[Field:\s+([^\]]+)\]/g matches the token: \s+ takes the
\* white space and gives one character back when no name follows
validPattern(t) == t.ws # <<>> /\ (t.name # "" \/ Len(t.ws) >= 2)

\* match[1].trim()
TrimmedName(t) == t.name

\* allowedVariables.find(allowed => allowed.toLowerCase() === variableName.toLowerCase())
FindCaseMismatch(variableName) ==
    LET hits == {k \in 1..Len(allowedVariables) :
                    LowerName(allowedVariables[k]) = LowerName(variableName)}
    IN  IF hits = {} THEN <<>>
        ELSE <<allowedVariables[CHOOSE k \in hits : \A m \in hits : k <= m]>>

\* first loop, lines 726-764: the issue pushed for the token at place i
SpacingIssue(t, i) ==
    [rule_id |-> "variable_format_001", severity |-> "critical",
     original |-> Render(t), suggestion |-> FieldTemplate(TrimmedName(t)), at |-> i]

\* second loop, lines 770-817: the issues pushed for the token at place i
NameIssues(t, i) ==
    LET variableName == TrimmedName(t)
        correctVariable == FindCaseMismatch(variableName) IN
    IF Includes(allowedVariables, variableName) THEN <<>>
    ELSE IF correctVariable # <<>>
         THEN <<[rule_id |-> "variable_format_002", severity |-> "critical",
                 original |-> Render(t), suggestion |-> FieldTemplate(correctVariable[1]),
                 at |-> i]>>
         ELSE <<[rule_id |-> "variable_format_003", severity |-> "medium",
                 original |-> Render(t),
                 suggestion |-> <<"Verify with CRM team. Common fields: ">>
                                    \o SubSeq(allowedVariables, 1, 5),
                 at |-> i]>>

RECURSIVE SpacingLoop(_, _)
SpacingLoop(text, i) ==
    IF i > Len(text) THEN <<>>
    ELSE (IF incorrectPattern(text[i]) THEN <<SpacingIssue(text[i], i)>> ELSE <<>>)
             \o SpacingLoop(text, i + 1)

RECURSIVE NameLoop(_, _)
NameLoop(text, i) ==
    IF i > Len(text) THEN <<>>
    ELSE (IF validPattern(text[i]) THEN NameIssues(text[i], i) ELSE <<>>)
             \o NameLoop(text, i + 1)

\* validateCustomVariables(text)
validateCustomVariables(text) ==
    IF Len(text) = 0 THEN <<>> ELSE SpacingLoop(text, 1) \o NameLoop(text, 1)

NotValidated == [done |-> FALSE, issues |-> <<>>]

\* one call of validateCustomVariables on the text
ValidateCustomVariables ==
    /\ ~fieldIssues.done
    /\ fieldIssues' = [done |-> TRUE, issues |-> validateCustomVariables(fieldText)]
    /\ UNCHANGED <<fieldText, engineVars, check, scrapeVars, rulesVars, moreVars>>

FieldNext == ValidateCustomVariables

FieldIdle ==
    /\ fieldText = <<>>
    /\ fieldIssues = NotValidated

FieldInit ==
    /\ fieldText \in FieldTexts
    /\ fieldIssues = NotValidated

(***************************************************************************)
(* CheckerService: the aggregator                                          *)
(*                                                                         *)
(* Three entry points build a report from content that was acquired:       *)
(*   "text"  checker.service.ts checkText(text, contentType)               *)
(*   "url"   url-checker.service.ts checkUrl(html, text, contentType)      *)
(*   "page"  checker.service.ts checkUrl(url, urlType), after the scrape   *)
(* A rule_id, a type and a category are sequences of word pieces, cut so   *)
(* that includes and startsWith are decided on whole pieces; <<>> is a     *)
(* field the issue does not have.                                          *)
(***************************************************************************)

\* most issues of one kind that a validator reports in one check
MaxFound == 3

Modes == {"text", "url", "page"}

\* the issues the validators of RulesEngineEnhanced report, by kind, in the
\* order in which the aggregator concatenates its branches
FoundKinds == <<"brand", "numerical", "cta", "links", "variables">>

\* the issue of each kind
Found(kind) ==
    CASE kind = "brand" ->
             [rule_id |-> <<"staging_url", "_wording">>, type |-> <<"brand_compliance">>,
              category |-> <<"brand_name">>, severity |-> "low"]
      [] kind = "numerical" ->
             [rule_id |-> <<"currency_format_001">>, type |-> <<"formatting">>,
              category |-> <<"numerical", "_format">>, severity |-> "high"]
      [] kind = "cta" ->
             [rule_id |-> <<"cta", "_optimization">>, type |-> <<"cta", "_optimization">>,
              category |-> <<"cta">>, severity |-> "medium"]
      [] kind = "links" ->
             [rule_id |-> <<"language_mismatch_001">>, type |-> <<"language_validation">>,
              category |-> <<"language_mismatch">>, severity |-> "critical"]
      [] kind = "variables" ->
             [rule_id |-> <<"variable_format", "_001">>, type |-> <<"brand_compliance">>,
              category |-> <<"brand_compliance">>, severity |-> "critical"]

\* the validators each entry point runs (Promise.all, lines 541-547, 72-90,
\* 615-626) and that are followed here
Branches(mode) ==
    CASE mode = "text" -> {"brand", "numerical", "cta", "variables"}
      [] mode = "url" -> {"brand", "numerical", "cta", "links"}
      [] mode = "page" -> {"brand", "numerical", "cta", "links", "variables"}

\* the content type each entry point hands to rulesEngine.checkText: the
\* content_type posted to /check-text ('edm' when left out), the default of
\* url-checker checkUrl, the literal of checker.service checkUrl; no other
\* validator of the entry point is given it
TagsOf(mode) ==
    CASE mode = "text" -> {"edm", "web"}
      [] mode = "url" -> {"web"}
      [] mode = "page" -> {"website"}

\* what the validators found: how many issues of each kind
Findings(mode) ==
    {f \in [1..Len(FoundKinds) -> 0..MaxFound] :
        \A k \in 1..Len(FoundKinds) : FoundKinds[k] \notin Branches(mode) => f[k] = 0}

Repeat(x, n) == [i \in 1..n |-> x]

RECURSIVE FoundIssues(_, _)
FoundIssues(f, k) ==
    IF k > Len(FoundKinds) THEN <<>>
    ELSE Repeat(Found(FoundKinds[k]), f[k]) \o FoundIssues(f, k + 1)

\* an issue as the collaborator's prompt asks for it, with a category added
AiIssue == [rule_id |-> <<>>, type |-> <<"grammar">>, category |-> <<"tone">>,
            severity |-> "high"]

\* a field of the collaborator's reply: left out, or an array
Missing == [shape |-> "absent", list |-> <<>>]

Array(l) == [shape |-> "array", list |-> l]

\* how the grammar/tone collaborator behaves: no API key, a rejected request,
\* a reply that is not JSON, or a reply that parses
Collaborations ==
    { [kind |-> k, grammarIssues |-> Missing, brandIssues |-> Missing,
       suggestions |-> Missing] : k \in {"not_configured", "api_error", "bad_json"} }
    \cup
    { [kind |-> "parsed", grammarIssues |-> Array(<<>>), brandIssues |-> Array(<<>>),
       suggestions |-> Array(<<>>)],
      [kind |-> "parsed", grammarIssues |-> Array(<<AiIssue>>), brandIssues |-> Array(<<>>),
       suggestions |-> Array(<<>>)],
      [kind |-> "parsed", grammarIssues |-> Array(<<AiIssue>>), brandIssues |-> Array(<<>>),
       suggestions |-> Missing],
      [kind |-> "parsed", grammarIssues |-> Missing, brandIssues |-> Missing,
       suggestions |-> Missing] }

\* the degraded result of checkContent, lines 138-143 and 171-176
DegradedResult ==
    [grammarIssues |-> Array(<<>>), brandIssues |-> Array(<<>>), suggestions |-> Array(<<>>)]

\* openaiService.checkContent(text, language): what the promise resolves to
checkContent(c) ==
    IF c.kind = "not_configured" THEN DegradedResult
    ELSE IF c.kind \in {"api_error", "bad_json"} THEN DegradedResult
    ELSE [grammarIssues |-> c.grammarIssues, brandIssues |-> c.brandIssues,
          suggestions |-> c.suggestions]

\* [...x] throws a TypeError when x is undefined
SpreadThrows(field) == field.shape # "array"

\* the spreads of aiResult each entry point makes without a default
CombineThrows(mode, aiResult) ==
    \/ SpreadThrows(aiResult.grammarIssues)
    \/ SpreadThrows(aiResult.brandIssues)
    \/ (mode = "page" /\ SpreadThrows(aiResult.suggestions))

\* const allIssues = [...aiResult.grammarIssues, ...aiResult.brandIssues, ...]
Combine(aiResult, f) ==
    aiResult.grammarIssues.list \o aiResult.brandIssues.list \o FoundIssues(f, 1)

StartsWith(s, piece) == Len(s) >= 1 /\ s[1] = piece

\* filterUrlApplicableIssues: excludedRuleIds
excludedRuleIds ==
    {"variable_format", "font_family", "color_validation", "staging_url", "template_", "edm_"}

\* filterUrlApplicableIssues: the predicate of the filter
UrlApplicable(issue) ==
    LET isExcluded == \E pattern \in excludedRuleIds : StartsWith(issue.rule_id, pattern)
        isCategoryExcluded == /\ issue.category \in {<<"cta">>, <<"tone">>}
                              /\ issue.severity \in {"low", "medium"}
    IN  ~isExcluded /\ ~isCategoryExcluded

filterUrlApplicableIssues(issues) == SelectSeq(issues, UrlApplicable)

\* the issues each entry point hands to categorizeIssues
Filtered(mode, issues) ==
    IF mode = "url" THEN filterUrlApplicableIssues(issues) ELSE issues

\* the keys of the categorized object, in insertion order
Buckets == <<"grammar", "brand", "numerical", "links", "images", "cta", "tone", "legal",
             "accessibility">>

\* checker.service.ts categorizeIssues: the if / else-if chain of lines 392-412
BucketOf(issue) ==
    LET category == IF issue.category # <<>> THEN issue.category
                    ELSE IF issue.type # <<>> THEN issue.type
                    ELSE <<"brand">> IN
    IF Includes(category, "grammar") \/ Includes(category, "spelling") THEN "grammar"
    ELSE IF Includes(category, "link") \/ Includes(category, "url")
                \/ Includes(category, "utm") THEN "links"
    ELSE IF Includes(category, "image") THEN "images"
    ELSE IF Includes(category, "cta") THEN "cta"
    ELSE IF Includes(category, "tone") THEN "tone"
    ELSE IF Includes(category, "legal") THEN "legal"
    ELSE IF Includes(category, "accessibility") THEN "accessibility"
    ELSE IF Includes(category, "numerical") \/ Includes(category, "number") THEN "numerical"
    ELSE "brand"

\* url-checker.service.ts categorizeIssues: the filter of each key, lines 266-274
InBucket(issue, bucket) ==
    CASE bucket = "grammar" -> issue.type = <<"grammar">> \/ issue.category = <<"grammar">>
      [] bucket = "brand" -> issue.category \in {<<"brand_compliance">>, <<"brand_voice">>}
      [] bucket = "numerical" -> issue.category = <<"numerical", "_format">>
      [] bucket = "links" -> \/ issue.type = <<"link", "_validation">>
                             \/ issue.category = <<"broken_", "link", "s">>
      [] bucket = "images" -> issue.type = <<"image", "_validation">>
      [] bucket = "cta" -> issue.category = <<"cta">>
      [] bucket = "tone" -> issue.category = <<"tone">>
      [] bucket = "legal" -> issue.category = <<"legal", "_compliance">>
      [] bucket = "accessibility" -> Includes(issue.category, "accessibility")

\* categorizeIssues of the entry point
categorizeIssues(mode, issues) ==
    [k \in 1..Len(Buckets) |->
        IF mode = "url"
        THEN SelectSeq(issues, LAMBDA i : InBucket(i, Buckets[k]))
        ELSE SelectSeq(issues, LAMBDA i : BucketOf(i) = Buckets[k])]

\* [...categorized.grammar, ...] and Object.values(issues).flat()
RECURSIVE Flat(_, _)
Flat(categorized, k) ==
    IF k > Len(categorized) THEN <<>> ELSE categorized[k] \o Flat(categorized, k + 1)

\* allIssues.filter(i => i.severity === s).length
CountSeverity(issues, s) == Cardinality({i \in 1..Len(issues) : issues[i].severity = s})

\* const weights = { critical: 20, high: 10, medium: 5, low: 2 }
weights == [critical |-> 20, high |-> 10, medium |-> 5, low |-> 2]

\* variant: the penalty is subtracted without a floor
ScoreUnclamped(totalPenalty) == 100 - totalPenalty

\* Math.max(0, 100 - totalPenalty)
Score(totalPenalty) == Max(0, 100 - totalPenalty)

\* calculateMetrics(categorizedIssues)
calculateMetrics(categorized) ==
    LET allIssues == Flat(categorized, 1)
        criticalIssues == CountSeverity(allIssues, "critical")
        highIssues == CountSeverity(allIssues, "high")
        mediumIssues == CountSeverity(allIssues, "medium")
        lowIssues == CountSeverity(allIssues, "low")
        totalPenalty == (criticalIssues * weights.critical) + (highIssues * weights.high)
                            + (mediumIssues * weights.medium) + (lowIssues * weights.low)
    IN  [totalIssues |-> Len(allIssues), criticalIssues |-> criticalIssues,
         highIssues |-> highIssues, mediumIssues |-> mediumIssues,
         lowIssues |-> lowIssues, complianceScore |-> Score(totalPenalty)]

NoMetrics == [totalIssues |-> 0, criticalIssues |-> 0, highIssues |-> 0,
              mediumIssues |-> 0, lowIssues |-> 0, complianceScore |-> 0]

NoIssues == [k \in 1..Len(Buckets) |-> <<>>]

\* no check request is being served
CheckIdle == [pc |-> "idle", mode |-> "text", contentType |-> "edm",
              found |-> [k \in 1..Len(FoundKinds) |-> 0],
              all |-> <<>>, built |-> FALSE, issues |-> NoIssues, metrics |-> NoMetrics,
              ended |-> "none"]

\* a check starts on acquired content: the synchronous validators have
\* returned, the call of the collaborator is awaited
BeginCheck(mode, contentType, f) ==
    /\ check.pc = "idle"
    /\ check' = [check EXCEPT !.pc = "collaborator", !.mode = mode,
                               !.contentType = contentType, !.found = f]
    /\ UNCHANGED <<engineVars, fieldVars, scrapeVars, rulesVars, moreVars>>

\* checkContent settles and the entry point runs on to await saveResult, or
\* throws while it combines the issues (in "page", analyzeSEO is awaited in
\* between; nothing it returns enters the issues)
CollaboratorSettles(c) ==
    LET aiResult == checkContent(c)
        allIssues == Filtered(check.mode, Combine(aiResult, check.found))
        categorized == categorizeIssues(check.mode, allIssues) IN
    /\ check.pc = "collaborator"
    /\ IF CombineThrows(check.mode, aiResult)
       THEN check' = [check EXCEPT !.pc = "done", !.ended = "type_error"]
       ELSE check' = [check EXCEPT !.pc = "saving", !.all = allIssues, !.built = TRUE,
                                   !.issues = categorized,
                                   !.metrics = calculateMetrics(categorized)]
    /\ UNCHANGED <<engineVars, fieldVars, scrapeVars, rulesVars, moreVars>>

\* saveResult settles: the report is returned, or the write failed
SaveSettles(ok) ==
    /\ check.pc = "saving"
    /\ check' = [check EXCEPT !.pc = "done",
                              !.ended = IF ok THEN "report" ELSE "save_error"]
    /\ UNCHANGED <<engineVars, fieldVars, scrapeVars, rulesVars, moreVars>>

ReportNext ==
    \/ \E mode \in Modes : \E contentType \in TagsOf(mode) :
           \E f \in Findings(mode) : BeginCheck(mode, contentType, f)
    \/ \E c \in Collaborations : CollaboratorSettles(c)
    \/ \E ok \in BOOLEAN : SaveSettles(ok)

(***************************************************************************)
(* CheckerService: the languages of a document and the language of an      *)
(* issue.  A document is a sequence of pieces: tags, line breaks and words. *)
(***************************************************************************)

MaxPieces == 3

\* the <html> start tags a document can open with, by their lang attribute
HtmlTags == {"<html lang='EN'>", "<html lang='ar'>", "<html lang='fr'>"}

\* tags: each holds Latin letters, those of its element and attribute names
Markup == HtmlTags \cup {"<a name='m_arabic'>", "<td dir='rtl'>", "<table>"}

\* what a document body is made of; "marhaban" stands for a word written in
\* Arabic letters, "[Field:Name]" is a merge field without its space
BodyPieces ==
    {"<a name='m_arabic'>", "<td dir='rtl'>", "<table>", "\n", "AED500", "marhaban",
     "[Field:Name]"}

Service == {"checker.service.ts", "part_001"}

\* the documents a file check is given, and the revision of the service
Pages ==
    { [revision |-> r, html |-> head \o body] :
        r \in Service,
        head \in {<<>>} \cup {<<t>> : t \in HtmlTags},
        body \in UNION {[1..n -> BodyPieces] : n \in 0..MaxPieces} }

\* /[\u0600-\u06FF]/ finds a character in the word
HasArabic(w) == w = "marhaban"

\* /[a-zA-Z]/ finds a character in the word
HasLatin(w) == w \in Markup \cup {"AED500", "aed500", "[Field:Name]"}

\* where in the word its first Latin letter is
LatinAt(w) == IF w \in Markup THEN 1 ELSE IF w = "[Field:Name]" THEN 1 ELSE 0

\* /[\u0600-\u06FF]/.test(text)
TestArabic(text) == \E i \in 1..Len(text) : HasArabic(text[i])

\* /[a-zA-Z]/.test(text)
TestLatin(text) == \E i \in 1..Len(text) : HasLatin(text[i])

Least(S) == CHOOSE m \in S : \A n \in S : m <= n

Greatest(S) == CHOOSE m \in S : \A n \in S : m >= n

\* text.search(/[\u0600-\u06FF]/)
SearchArabic(text) ==
    LET hits == {i \in 1..Len(text) : HasArabic(text[i])} IN
    IF hits = {} THEN -1 ELSE Offset(text, Least(hits))

\* text.search(/[a-zA-Z]/)
SearchLatin(text) ==
    LET hits == {i \in 1..Len(text) : HasLatin(text[i])} IN
    IF hits = {} THEN -1 ELSE Offset(text, Least(hits)) + LatinAt(text[Least(hits)])

\* the value of the lang attribute of an <html> tag, as written
LangAttr(w) ==
    CASE w = "<html lang='EN'>" -> "EN"
      [] w = "<html lang='ar'>" -> "ar"
      [] w = "<html lang='fr'>" -> "fr"

\* text.match(/<html[^>]*\slang=["']([^"']+)["']/i): group 1 of the first match
langAttrMatch(text) ==
    LET hits == {i \in 1..Len(text) : text[i] \in HtmlTags} IN
    IF hits = {} THEN <<>> ELSE <<LangAttr(text[Least(hits)])>>

\* detectLanguages of checker.service.ts (lines 231-246)
detectLanguagesByScript(text) ==
    LET languages == (IF TestArabic(text) THEN <<"ara">> ELSE <<>>)
                         \o (IF TestLatin(text) THEN <<"eng">> ELSE <<>>)
    IN  IF Len(languages) > 0 THEN languages ELSE <<"eng">>

\* detectLanguages of part_001 (lines 208-258)
detectLanguagesByOrder(text) ==
    LET langAttr == ToLowerCase(langAttrMatch(text))
        firstArabicPos == SearchArabic(text)
        firstEnglishPos == SearchLatin(text)
        hasArabic == firstArabicPos # -1
        hasEnglish == firstEnglishPos # -1
        languages ==
            IF hasEnglish /\ hasArabic
            THEN IF firstEnglishPos < firstArabicPos THEN <<"eng", "ara">>
                 ELSE <<"ara", "eng">>
            ELSE IF hasArabic THEN <<"ara">>
            ELSE IF hasEnglish THEN <<"eng">>
            ELSE <<>>
    IN  IF StartsWith(langAttr, "en")
        THEN <<"eng">> \o (IF TestArabic(text) THEN <<"ara">> ELSE <<>>)
        ELSE IF StartsWith(langAttr, "ar")
        THEN <<"ara">> \o (IF TestLatin(text) THEN <<"eng">> ELSE <<>>)
        ELSE IF Len(languages) > 0 THEN languages ELSE <<"eng">>

detectLanguages(revision, text) ==
    IF revision = "part_001" THEN detectLanguagesByOrder(text)
    ELSE detectLanguagesByScript(text)

\* \s matches the piece
IsSpace(w) == w \in {" ", "\n"}

\* text.replace(/<[^>]+>/g, ' ')
StripTags(html) == [i \in 1..Len(html) |-> IF html[i] \in Markup THEN " " ELSE html[i]]

RECURSIVE DropSpaces(_)
DropSpaces(t) == IF t # <<>> /\ IsSpace(Head(t)) THEN DropSpaces(Tail(t)) ELSE t

RECURSIVE DropTrailingSpaces(_)
DropTrailingSpaces(t) ==
    IF t # <<>> /\ IsSpace(t[Len(t)]) THEN DropTrailingSpaces(SubSeq(t, 1, Len(t) - 1))
    ELSE t

\* text.replace(/\s+/g, ' ')
RECURSIVE CollapseSpaces(_)
CollapseSpaces(t) ==
    IF t = <<>> THEN <<>>
    ELSE IF IsSpace(Head(t)) THEN <<" ">> \o CollapseSpaces(DropSpaces(t))
    ELSE <<Head(t)>> \o CollapseSpaces(Tail(t))

\* String.prototype.trim
Trim(t) == DropTrailingSpaces(DropSpaces(t))

\* extractTextFromHTML(html); the documents hold no script or style element
\* and no character entity
extractTextFromHTML(html) == Trim(CollapseSpaces(StripTags(html)))

\* String.prototype.substring(from, to): negative arguments count as 0
Substring(text, from, to) == Slice(text, Max(0, from), Max(0, to))

\* String.prototype.lastIndexOf(w, fromIndex)
LastIndexOf(text, w, fromIndex) ==
    LET hits == {i \in 1..Len(text) : text[i] = w /\ Offset(text, i) <= fromIndex} IN
    IF hits = {} THEN -1 ELSE Offset(text, Greatest(hits))

\* a || b on numbers: 0 is the only falsy one
OrElse(a, b) == IF a # 0 THEN a ELSE b

\* the last branch of splitByLanguageSections: line by line, everything from
\* the first line holding an Arabic letter goes to the Arabic section
SplitByLines(html) ==
    LET hits == {i \in 1..Len(html) : HasArabic(html[i])} IN
    IF hits = {} THEN [english |-> html \o <<"\n">>, arabic |-> <<>>]
    ELSE LET breaks == {i \in 1..(Least(hits) - 1) : html[i] = "\n"}
             lineStart == IF breaks = {} THEN 1 ELSE Greatest(breaks) + 1
         IN  [english |-> SubSeq(html, 1, lineStart - 1),
              arabic |-> SubSeq(html, lineStart, Len(html)) \o <<"\n">>]

\* splitByLanguageSections(html)
splitByLanguageSections(html) ==
    LET anchors == {i \in 1..Len(html) : html[i] = "<a name='m_arabic'>"}
        rtls == {i \in 1..Len(html) : html[i] = "<td dir='rtl'>"}
        \* the attribute follows "<td " in its tag
        rtlIndex == Offset(html, Least(rtls)) + 4
    IN  IF anchors # {}
        THEN LET arabicStart == OrElse(Offset(html, Least(anchors)), 0) IN
             [english |-> Substring(html, 0, arabicStart),
              arabic |-> Substring(html, arabicStart, TextLength(html))]
        ELSE IF rtls # {} /\ rtlIndex # 0
        THEN LET sectionStart ==
                     OrElse(LastIndexOf(html, "<table>", rtlIndex),
                            OrElse(LastIndexOf(html, "<div>", rtlIndex), rtlIndex))
             IN  [english |-> Substring(html, 0, sectionStart),
                  arabic |-> Substring(html, sectionStart, TextLength(html))]
        ELSE SplitByLines(html)

\* an optional number field of an issue
Unknown == [has |-> FALSE, at |-> 0]

Known(n) == [has |-> TRUE, at |-> n]

\* the rule list of the file checks: the amount rule of the catalogue
PageRules == <<CHOOSE r \in Catalogue : r.id = "amount_001">>

\* rulesEngine.checkText(text, 'edm'): its issues carry a position and the
\* matched text as original, no context and no found
BrandFindings(text) ==
    LET r == checkText(PageRules, text, "edm", <<>>) IN
    [k \in 1..Len(r.issues) |->
        [rule_id |-> r.issues[k].rule_id, position |-> Known(r.issues[k].position),
         context |-> <<>>, found |-> <<>>]]

\* validateCustomVariables(text), first loop: the issue for each merge field
\* without its space, with the text around it as context; the extracted text
\* holds no tag and no sentence end that would narrow the context
RECURSIVE VariableFindings(_, _)
VariableFindings(text, i) ==
    IF i > Len(text) THEN <<>>
    ELSE (IF text[i] = "[Field:Name]"
          THEN LET index == Offset(text, i)
                   start == Max(0, index - ContextChars)
                   end == Min(TextLength(text), index + CharLen(text[i]) + ContextChars)
               IN  <<[rule_id |-> "variable_format_001", position |-> Known(index),
                      context |-> Trim(Slice(text, start, end)), found |-> <<text[i]>>]>>
          ELSE <<>>) \o VariableFindings(text, i + 1)

\* indexOf(s) === 0
IsPrefix(s, text) == Len(s) <= Len(text) /\ SubSeq(text, 1, Len(s)) = s

\* the language tagIssuesWithLanguage gives one issue
LanguageOf(issue, sections, fullText) ==
    IF issue.position.has
    THEN IF sections.english # <<>> /\ IsPrefix(sections.english, fullText)
         THEN IF issue.position.at < TextLength(sections.english) THEN "english"
              ELSE "arabic"
         ELSE "both"
    ELSE IF issue.context # <<>>
    THEN IF TestArabic(issue.context) THEN "arabic"
         ELSE IF TestLatin(issue.context) THEN "english"
         ELSE "both"
    ELSE IF issue.found # <<>>
    THEN IF TestArabic(issue.found) THEN "arabic"
         ELSE IF TestLatin(issue.found) THEN "english"
         ELSE "both"
    ELSE "both"

Tagged(issue, language) ==
    [rule_id |-> issue.rule_id, position |-> issue.position, context |-> issue.context,
     found |-> issue.found, language |-> language]

\* tagIssuesWithLanguage(issues, sections, fullText)
tagIssuesWithLanguage(issues, sections, fullText) ==
    [k \in 1..Len(issues) |-> Tagged(issues[k], LanguageOf(issues[k], sections, fullText))]

\* issues of a document in one language carry no language
Untagged(issues) == [k \in 1..Len(issues) |-> Tagged(issues[k], "none")]

NoSections == [english |-> <<>>, arabic |-> <<>>]

NotChecked ==
    [done |-> FALSE, failed |-> FALSE, text |-> <<>>, languages |-> <<>>,
     sections |-> NoSections, issues |-> <<>>]

\* checkFile on an .html file, from the extraction of the text to the tagging;
\* the collaborator finds nothing
CheckFile ==
    /\ ~pageCheck.done
    /\ LET html == page.html
           text == extractTextFromHTML(html)
           fullText == IF html # <<>> THEN html ELSE text
           languages == detectLanguages(page.revision, fullText)
           isBilingual == Len(languages) > 1
           split == isBilingual /\ html # <<>>
           sections == IF split THEN splitByLanguageSections(html) ELSE NoSections
           allIssues == BrandFindings(text) \o VariableFindings(text, 1)
       IN  IF Len(text) = 0
           THEN pageCheck' = [NotChecked EXCEPT !.done = TRUE, !.failed = TRUE]
           ELSE pageCheck' =
                    [done |-> TRUE, failed |-> FALSE, text |-> text,
                     languages |-> languages, sections |-> sections,
                     issues |-> IF split
                                THEN tagIssuesWithLanguage(allIssues, sections, fullText)
                                ELSE Untagged(allIssues)]
    /\ UNCHANGED <<page, linkVars, seoVars, viewVars, scanVars, scrapeVars, rulesVars, checkVars>>

PageNext == CheckFile

PageIdle ==
    /\ page = [revision |-> "checker.service.ts", html |-> <<>>]
    /\ pageCheck = NotChecked

PageInit ==
    /\ page \in Pages
    /\ pageCheck = NotChecked

(***************************************************************************)
(* RulesEngineEnhanced.validateLinks on a document holding one a element.  *)
(* An href is a sequence of pieces.                                        *)
(***************************************************************************)

MaxTail == 2

\* how an href begins
Heads == {"https://bank.ae/", "https:/bank.ae/", "httpx://bank.ae/", "#", "mailto:a@bank.ae"}

\* what follows: a path word, a blank, a merge field written with its space,
\* a merge field written without it, a tracking parameter
Tails == {"promo", " ", "[Field: First Name]", "[Field:Name]", "?utm_source=edm"}

Hrefs ==
    { head \o tail : head \in {<<>>} \cup {<<h>> : h \in Heads},
                     tail \in UNION {[1..n -> Tails] : n \in 0..MaxTail} }

LinkTexts == {"Offer", "Click Here", ""}

\* the a elements: without an href attribute, or with one
Anchors == [href : {Absent} \cup {Listed(h) : h \in Hrefs}, text : LinkTexts]

\* /\[Field:\s+[^\]]+\]/.test(link)
hasDynamicField(link) == Includes(link, "[Field: First Name]")

\* /\s+/.test(link): a blank on its own, or the blanks inside a merge field
HasWhitespace(link) == \E i \in 1..Len(link) : link[i] \in {" ", "[Field: First Name]"}

\* link.trim() === ''
IsBlank(link) == \A i \in 1..Len(link) : link[i] = " "

\* const malformedPatterns: each pattern by the pieces that hold a match of it
malformedPatterns ==
    << [holds |-> {"---https://bank.ae/"},
        message |-> "Malformed URL with extra dashes (---https://)"],
       [holds |-> {"https:://bank.ae/"},
        message |-> "Malformed URL with double colons (https::)"],
       [holds |-> {"https:/bank.ae/"},
        message |-> "Malformed URL missing second slash (https:/)"],
       [holds |-> {"https:///bank.ae/"},
        message |-> "Malformed URL with triple slashes (https:///)"],
       [holds |-> {"<", ">"},
        message |-> "URL contains invalid characters (<>)"] >>

\* lines 287-292: the blank test is pushed when the href holds no merge field
PatternsFor(link) ==
    malformedPatterns
        \o (IF ~hasDynamicField(link) /\ HasWhitespace(link)
            THEN <<[holds |-> {" ", "[Field: First Name]"},
                    message |-> "URL contains spaces (not part of dynamic field)"]>>
            ELSE <<>>)

\* pattern.test(link)
PatternTest(pattern, link) == \E i \in 1..Len(link) : link[i] \in pattern.holds

LinkIssue(rule_id, severity, message, link) ==
    [rule_id |-> rule_id, severity |-> severity, message |-> message, found |-> link]

\* the for loop over the patterns: the issue of the first one that matches
RECURSIVE FirstMalformed(_, _)
FirstMalformed(patterns, link) ==
    IF patterns = <<>> THEN <<>>
    ELSE IF PatternTest(Head(patterns), link)
         THEN <<LinkIssue("url_malformed_001", "critical", Head(patterns).message, link)>>
         ELSE FirstMalformed(Tail(patterns), link)

\* link.startsWith('http')
StartsWithHttp(link) ==
    Len(link) >= 1 /\ link[1] \in {"https://bank.ae/", "https:/bank.ae/", "httpx://bank.ae/"}

\* isValidUrl(link): new URL(link) parses and its protocol is http: or https:;
\* blanks and brackets after the host are accepted by the parser
isValidUrl(link) == Len(link) >= 1 /\ link[1] \in {"https://bank.ae/", "https:/bank.ae/"}

\* linkText.toLowerCase()
LowerLinkText(t) == IF t = "Click Here" THEN "click here" ELSE t

\* the accessibility checks at the end of the loop body, lines 423-449
TextIssues(link, linkText) ==
    (IF LowerLinkText(linkText) \in {"click here", "here"}
     THEN <<LinkIssue("accessibility_001", "medium",
                      "Link text should be descriptive for screen readers", link)>>
     ELSE <<>>)
    \o (IF linkText = ""
        THEN <<LinkIssue("link_no_text_001", "high",
                         "Link has no visible text (accessibility issue)", link)>>
        ELSE <<>>)

\* the body of the third loop for one link; the link stands in English text
\* and points to no /ar/ page and to no social network, so that the language
\* checks of lines 366-420 push nothing
LinkChecks(link, linkText) ==
    LET malformed == FirstMalformed(PatternsFor(link), link) IN
    IF IsBlank(link) THEN <<>>
    ELSE IF malformed # <<>> THEN malformed
    ELSE IF link = <<"#">>
    THEN <<LinkIssue("link_validation_001", "critical",
                     "Placeholder link detected (not a real URL)", link)>>
    ELSE IF StartsWithHttp(link) /\ ~isValidUrl(link)
    THEN <<LinkIssue("url_invalid_001", "high", "Invalid URL format", link)>>
    ELSE (IF ~Includes(link, "?utm_source=edm") /\ StartsWithHttp(link)
          THEN <<LinkIssue("utm_tracking_001", "medium",
                           "Link missing UTM tracking parameters", link)>>
          ELSE <<>>)
         \o TextIssues(link, linkText)

\* validateLinks(html) for the a element of the document
validateLinks(a) ==
    (IF ~a.href.has
     THEN <<LinkIssue("link_missing_href_001", "critical", "Link missing href attribute",
                      <<"no href attribute">>)>>
     ELSE <<>>)
    \o (IF a.href.has /\ IsBlank(a.href.list)
        THEN <<LinkIssue("link_empty_href_001", "critical", "Link has empty href attribute",
                         <<"href=\"\"">>)>>
        ELSE <<>>)
    \o (IF a.href.has /\ a.href.list # <<>> THEN LinkChecks(a.href.list, a.text) ELSE <<>>)

NotValidatedLinks == [done |-> FALSE, issues |-> <<>>]

\* one call of validateLinks
ValidateLinks ==
    /\ ~linkIssues.done
    /\ linkIssues' = [done |-> TRUE, issues |-> validateLinks(anchor)]
    /\ UNCHANGED <<anchor, pageVars, seoVars, viewVars, scanVars, scrapeVars, rulesVars, checkVars>>

LinkNext == ValidateLinks

LinkIdle ==
    /\ anchor = [href |-> Absent, text |-> ""]
    /\ linkIssues = NotValidatedLinks

LinkInit ==
    /\ anchor \in Anchors
    /\ linkIssues = NotValidatedLinks

(***************************************************************************)
(* The SEO checks of a scraped page: SeoAnalyzerService and                *)
(* CheckerService.validateSeoMetadata.  A meta description is known by its *)
(* length and by whether it holds a call-to-action word.                   *)
(***************************************************************************)

MaxLength == 165

\* the content of meta[name="description"], trimmed by the scraper; the empty
\* content holds no word
Descriptions == {d \in [length : 0..MaxLength, cta : BOOLEAN] : d.length = 0 => ~d.cta}

\* the rest of the metadata: a title of 45 characters and both Open Graph tags
SeoMetadata(d) ==
    [metaTitle |-> 45, metaDescription |-> d, ogTitle |-> 45, ogDescription |-> 120]

\* SeoAnalyzerService.analyzeMetaDescription($)
analyzeMetaDescription(content) ==
    LET length == content.length
        missing == length = 0
        short == length < 120
        long == ~short /\ length > 160
        issues ==
            IF missing THEN <<"Missing meta description">>
            ELSE (IF short
                  THEN <<"Meta description is too short (recommended: 150-160 characters)">>
                  ELSE IF long
                  THEN <<"Meta description is too long and may be truncated">>
                  ELSE <<>>)
                 \o (IF ~content.cta
                     THEN <<"Consider adding a call-to-action in your meta description">>
                     ELSE <<>>)
        score ==
            IF missing THEN 0
            ELSE 100 - (IF short THEN 30 ELSE IF long THEN 20 ELSE 0)
                     - (IF length > 0 /\ length < 150 THEN 10 ELSE 0)
                     - (IF ~content.cta THEN 10 ELSE 0)
    IN  [length |-> length, score |-> Max(0, score), issues |-> issues]

SeoIssue(severity, rule_id) ==
    [type |-> "seo_validation", category |-> "seo", severity |-> severity,
     rule_id |-> rule_id]

\* CheckerService.validateSeoMetadata(seoMetadata)
validateSeoMetadata(seoMetadata) ==
    (IF seoMetadata.metaTitle = 0 THEN <<SeoIssue("critical", "seo_meta_title_missing")>>
     ELSE IF seoMetadata.metaTitle < 30 THEN <<SeoIssue("high", "seo_meta_title_short")>>
     ELSE IF seoMetadata.metaTitle > 60 THEN <<SeoIssue("medium", "seo_meta_title_long")>>
     ELSE <<>>)
    \o (IF seoMetadata.metaDescription.length = 0
        THEN <<SeoIssue("critical", "seo_meta_description_missing")>>
        ELSE IF seoMetadata.metaDescription.length < 100
        THEN <<SeoIssue("medium", "seo_meta_description_short")>>
        ELSE IF seoMetadata.metaDescription.length > 160
        THEN <<SeoIssue("medium", "seo_meta_description_long")>>
        ELSE <<>>)
    \o (IF seoMetadata.ogTitle = 0 THEN <<SeoIssue("medium", "seo_og_title_missing")>>
        ELSE <<>>)
    \o (IF seoMetadata.ogDescription = 0
        THEN <<SeoIssue("medium", "seo_og_description_missing")>>
        ELSE <<>>)

NotAnalyzed == [done |-> FALSE, metaDescription |-> [length |-> 0, score |-> 0, issues |-> <<>>],
                issues |-> <<>>]

\* the SEO part of a URL check: analyzeSEO for the seoAnalysis of the report,
\* validateSeoMetadata for its issues
AnalyzeSeo ==
    /\ ~seo.done
    /\ seo' = [done |-> TRUE, metaDescription |-> analyzeMetaDescription(description),
               issues |-> validateSeoMetadata(SeoMetadata(description))]
    /\ UNCHANGED <<description, pageVars, linkVars, viewVars, scanVars, scrapeVars, rulesVars, checkVars>>

SeoNext == AnalyzeSeo

SeoIdle ==
    /\ description = [length |-> 0, cta |-> FALSE]
    /\ seo = NotAnalyzed

SeoInit ==
    /\ description \in Descriptions
    /\ seo = NotAnalyzed

(***************************************************************************)
(* The result page of the front end (App.tsx): the report it received, the *)
(* three filters, and the issue list getAllIssues() gives each render.     *)
(***************************************************************************)

MaxIssues == 3

\* useState<string | null>(null)
Null == "null"

\* the issues of a report as the page reads them: the bucket they are in,
\* their severity as the back end wrote it, their language tag
ReportIssues ==
    { [categoryName |-> "brand", severity |-> "low", language |-> "english"],
      [categoryName |-> "brand", severity |-> "critical", language |-> "arabic"],
      [categoryName |-> "links", severity |-> "High", language |-> "both"],
      [categoryName |-> "links", severity |-> "medium", language |-> "english"],
      [categoryName |-> "grammar", severity |-> "info", language |-> "arabic"] }

\* response.data.data: the issues in the order the check found them, and
\* whether the content was bilingual
Results ==
    [found : UNION {[1..n -> ReportIssues] : n \in 0..MaxIssues}, isBilingual : BOOLEAN]

\* result.issues[category]
BucketIssues(res, category) ==
    SelectSeq(res.found, LAMBDA i : i.categoryName = category)

\* Object.entries(result.issues).forEach(...): the buckets in key order
RECURSIVE EntriesFrom(_, _)
EntriesFrom(res, k) ==
    IF k > Len(Buckets) THEN <<>>
    ELSE BucketIssues(res, Buckets[k]) \o EntriesFrom(res, k + 1)

\* getSeverityOrder(severity)
getSeverityOrder(severity) ==
    LET s == LowerWord(severity) IN
    CASE s = "critical" -> 0
      [] s = "high" -> 1
      [] s = "medium" -> 2
      [] s = "low" -> 3
      [] OTHER -> 4

\* the comparator handed to sort
CompareSeverity(a, b) == getSeverityOrder(a.severity) - getSeverityOrder(b.severity)

\* one element put into a sorted list, behind the elements it does not precede
RECURSIVE InsertSorted(_, _)
InsertSorted(x, l) ==
    IF l = <<>> THEN <<x>>
    ELSE IF CompareSeverity(Head(l), x) <= 0 THEN <<Head(l)>> \o InsertSorted(x, Tail(l))
    ELSE <<x>> \o l

\* variant: the list is returned in the order of the buckets
LeftAsIs(l) == l

\* Array.prototype.sort with the comparator: a stable sort
RECURSIVE SortBySeverity(_)
SortBySeverity(l) ==
    IF l = <<>> THEN <<>>
    ELSE InsertSorted(l[Len(l)], SortBySeverity(SubSeq(l, 1, Len(l) - 1)))

\* the language filter of getAllIssues
LanguageFilter(i, selectedLanguage) ==
    IF selectedLanguage = "english" THEN i.language \in {"english", "both"}
    ELSE IF selectedLanguage = "arabic" THEN i.language \in {"arabic", "both"}
    ELSE TRUE

\* the three filters of getAllIssues
PassesFilters(v, i) ==
    /\ v.selectedSeverity # Null => i.severity = v.selectedSeverity
    /\ v.selectedCategory # Null => i.categoryName = v.selectedCategory
    /\ (v.selectedLanguage # "all" /\ v.result.isBilingual) =>
           LanguageFilter(i, v.selectedLanguage)

\* getAllIssues()
getAllIssues(v) ==
    IF ~v.loaded THEN <<>>
    ELSE LET allIssues == EntriesFrom(v.result, 1)
             filtered == SelectSeq(allIssues, LAMBDA i : PassesFilters(v, i))
         IN  SortBySeverity(filtered)

NullResult == [found |-> <<>>, isBilingual |-> FALSE]

\* the page before a check has answered
NoView == [loaded |-> FALSE, result |-> NullResult, selectedSeverity |-> Null,
           selectedCategory |-> Null, selectedLanguage |-> "all"]

\* the state is set and the page renders again
Rerender(v) ==
    /\ view' = v
    /\ shown' = getAllIssues(v)
    /\ UNCHANGED <<pageVars, linkVars, seoVars, scanVars, scrapeVars, rulesVars, checkVars>>

\* the answer of a check arrives: setResult and the reset of the filters
ReceiveResult(r) ==
    /\ ~view.loaded
    /\ Rerender([NoView EXCEPT !.loaded = TRUE, !.result = r])

\* handleSeverityClick(severity)
handleSeverityClick(severity) ==
    /\ view.loaded
    /\ Rerender([view EXCEPT
                  !.selectedSeverity = IF view.selectedSeverity = severity THEN Null
                                       ELSE severity,
                  !.selectedCategory = Null])

\* handleCategoryClick(category)
handleCategoryClick(category) ==
    /\ view.loaded
    /\ Rerender([view EXCEPT
                  !.selectedCategory = IF view.selectedCategory = category THEN Null
                                       ELSE category,
                  !.selectedSeverity = Null])

\* the language buttons: setSelectedLanguage
SelectLanguage(language) ==
    /\ view.loaded
    /\ Rerender([view EXCEPT !.selectedLanguage = language])

\* clearFilters()
clearFilters ==
    /\ view.loaded
    /\ Rerender([view EXCEPT !.selectedSeverity = Null, !.selectedCategory = Null,
                           !.selectedLanguage = "all"])

ViewNext ==
    \/ \E r \in Results : ReceiveResult(r)
    \/ \E severity \in {"critical", "high", "medium", "low"} : handleSeverityClick(severity)
    \/ \E category \in {"grammar", "brand", "links"} : handleCategoryClick(category)
    \/ \E language \in {"all", "english", "arabic"} : SelectLanguage(language)
    \/ clearFilters

ViewIdle ==
    /\ view = NoView
    /\ shown = <<>>

(***************************************************************************)
(* RulesEngineEnhanced.checkText: the match loop of one rule, step by      *)
(* step.  Here a text is a sequence of characters and the RegExp object    *)
(* carries lastIndex from one exec call to the next (flags 'gi').          *)
(***************************************************************************)

\* longest text the loop runs over, in characters
MaxChars == 3

\* the count of pushed issues is kept up to this number
MaxPushed == 3

Chars == {"a", "A", "b"}

\* the texts that reach the loop: checkText returns before it for an empty text
ScanTexts == UNION {[1..n -> Chars] : n \in 1..MaxChars}

\* flag i: letters are compared without regard to case
LowerChar(c) == IF c = "A" THEN "a" ELSE c

\* rule.pattern as new RegExp reads it: one letter with a quantifier, or the
\* empty pattern (also what new RegExp(undefined) gives: /(?:)/)
ScanPatterns ==
    { [source |-> "a", atom |-> "a", quantifier |-> "one"],
      [source |-> "a+", atom |-> "a", quantifier |-> "+"],
      [source |-> "a*", atom |-> "a", quantifier |-> "*"],
      [source |-> "b?", atom |-> "b", quantifier |-> "?"],
      [source |-> "", atom |-> "", quantifier |-> "one"] }

\* how many characters from offset i on are the atom of the pattern
RECURSIVE RunLength(_, _, _)
RunLength(pattern, text, i) ==
    IF i < Len(text) /\ LowerChar(text[i + 1]) = LowerChar(pattern.atom)
    THEN 1 + RunLength(pattern, text, i + 1)
    ELSE 0

NoMatch == -1

\* the matcher of the pattern run at offset i: the length of the (greedy)
\* match that begins there, or NoMatch
MatchLengthAt(pattern, text, i) ==
    LET run == RunLength(pattern, text, i) IN
    IF pattern.atom = "" THEN 0
    ELSE CASE pattern.quantifier = "one" -> IF run >= 1 THEN 1 ELSE NoMatch
           [] pattern.quantifier = "+" -> IF run >= 1 THEN run ELSE NoMatch
           [] pattern.quantifier = "*" -> run
           [] pattern.quantifier = "?" -> Min(run, 1)

\* RegExp.prototype.exec with the g flag: the search begins at lastIndex and
\* moves right until the matcher succeeds; a match sets lastIndex to its end,
\* a failure sets lastIndex to 0 and returns null
exec(pattern, text, lastIndex) ==
    LET starts == {i \in lastIndex..Len(text) : MatchLengthAt(pattern, text, i) # NoMatch} IN
    IF lastIndex > Len(text) \/ starts = {}
    THEN [isNull |-> TRUE, index |-> 0, length |-> 0, lastIndex |-> 0]
    ELSE LET i == CHOOSE m \in starts : \A n \in starts : m <= n
             e == i + MatchLengthAt(pattern, text, i)
         IN  [isNull |-> FALSE, index |-> i, length |-> e - i, lastIndex |-> e]

\* const regex = new RegExp(rule.pattern, 'gi'); let match (lines 109-110)
NewScan(pattern, text) ==
    [state |-> "running", pattern |-> pattern, text |-> text, lastIndex |-> 0,
     last |-> [index |-> -1, length |-> 0]]

NoScan == [state |-> "none", pattern |-> [source |-> "", atom |-> "", quantifier |-> "one"],
           text |-> <<>>, lastIndex |-> 0, last |-> [index |-> -1, length |-> 0]]

\* while ((match = regex.exec(text)) !== null) { ... issues.push(issue) }: one
\* turn of the loop in which exec found a match (the rule has no
\* context_exceptions, so isException is false): lines 112-133
ExecMatches ==
    LET m == exec(scan.pattern, scan.text, scan.lastIndex) IN
    /\ scan.state = "running"
    /\ ~m.isNull
    /\ scan' = [scan EXCEPT !.lastIndex = m.lastIndex,
                            !.last = [index |-> m.index, length |-> m.length]]
    /\ pushed' = Min(pushed + 1, MaxPushed)
    /\ UNCHANGED <<pageVars, linkVars, seoVars, viewVars, scrapeVars, rulesVars, checkVars>>

\* exec returned null: the loop is left and the for loop goes to the next rule
ExecNull ==
    LET m == exec(scan.pattern, scan.text, scan.lastIndex) IN
    /\ scan.state = "running"
    /\ m.isNull
    /\ scan' = [scan EXCEPT !.state = "left", !.lastIndex = m.lastIndex]
    /\ pushed' = pushed
    /\ UNCHANGED <<pageVars, linkVars, seoVars, viewVars, scrapeVars, rulesVars, checkVars>>

ScanNext ==
    \/ ExecMatches
    \/ ExecNull

\* no checkText call is in its match loop
ScanIdle ==
    /\ scan = NoScan
    /\ pushed = 0

\* checkText has reached the while loop of a rule
ScanInit ==
    /\ \E pattern \in ScanPatterns, text \in ScanTexts : scan = NewScan(pattern, text)
    /\ pushed = 0

\* the process after construction: no request, no rules file, no call made
Init ==
    /\ ScrapeInit /\ RulesInit /\ EngineIdle /\ check = CheckIdle /\ FieldIdle
    /\ PageIdle /\ LinkIdle /\ SeoIdle /\ ViewIdle /\ ScanIdle

Next == ScrapeNext

Spec == Init /\ [][Next]_vars

\* the acquisition pipeline with its timers: a timeout that is set does expire
FairSpec == Spec /\ WF_vars(TimerFires)

RulesSpec == Init /\ [][RulesNext]_vars

\* checkText calls on a loaded rule list
EngineStart ==
    /\ ScrapeInit /\ RulesInit /\ EngineInit /\ check = CheckIdle /\ FieldIdle
    /\ PageIdle /\ LinkIdle /\ SeoIdle /\ ViewIdle /\ ScanIdle

EngineSpec == EngineStart /\ [][EngineNext]_vars

\* check requests on acquired content
ReportSpec == Init /\ [][ReportNext]_vars

\* validateCustomVariables on a text of merge-field tokens
FieldStart ==
    /\ ScrapeInit /\ RulesInit /\ EngineIdle /\ check = CheckIdle /\ FieldInit
    /\ PageIdle /\ LinkIdle /\ SeoIdle /\ ViewIdle /\ ScanIdle

FieldSpec == FieldStart /\ [][FieldNext]_vars

\* file checks of .html documents
PageStart ==
    /\ ScrapeInit /\ RulesInit /\ EngineIdle /\ check = CheckIdle /\ FieldIdle
    /\ PageInit /\ LinkIdle /\ SeoIdle /\ ViewIdle /\ ScanIdle

PageSpec == PageStart /\ [][PageNext]_vars

\* validateLinks on one a element
LinkStart ==
    /\ ScrapeInit /\ RulesInit /\ EngineIdle /\ check = CheckIdle /\ FieldIdle
    /\ PageIdle /\ LinkInit /\ SeoIdle /\ ViewIdle /\ ScanIdle

LinkSpec == LinkStart /\ [][LinkNext]_vars

\* the SEO checks on a meta description
SeoStart ==
    /\ ScrapeInit /\ RulesInit /\ EngineIdle /\ check = CheckIdle /\ FieldIdle
    /\ PageIdle /\ LinkIdle /\ SeoInit /\ ViewIdle /\ ScanIdle

SeoSpec == SeoStart /\ [][SeoNext]_vars

\* the result page from the arrival of a report on
ViewSpec == Init /\ [][ViewNext]_vars

\* one rule of checkText: the RegExp is new, the loop is about to call exec
ScanStart ==
    /\ ScrapeInit /\ RulesInit /\ EngineIdle /\ check = CheckIdle /\ FieldIdle
    /\ PageIdle /\ LinkIdle /\ SeoIdle /\ ViewIdle /\ ScanInit

\* checkText is synchronous: a running loop is never held up, it takes its
\* next step
ScanSpec == ScanStart /\ [][ScanNext]_vars /\ WF_vars(ScanNext)

(***************************************************************************)
(* Properties                                                              *)
(***************************************************************************)

Count(l, m) == Cardinality({i \in 1..Len(l) : l[i] = m})

Logged(m) == Includes(log, m)

\* scrapeUrl has returned or thrown
ScrapeEnded == result.kind # "none"

\* the wording that marks a failure as defense-triggered
DefenseWords == {"cloudflare", "403", "forbidden", "challenge", "captcha", "blocked",
                 "access denied"}

ReadsAsDefense(message) == \E w \in DefenseWords : Includes(ToLowerCase(message), w)

\* C1: the tiers run in order and never at once: tier 2 is started only after
\* tier 1 has finished with a failure that reads as defense-triggered, never
\* while the fetch is pending and never after a tier-1 success; the strategies
\* of tier 2 start only inside a started tier 2.
C1_TiersInOrder ==
    /\ pc = "fetch" => ~Logged("T2_TRY")
    /\ Logged("T1_OK") => ~Logged("T2_TRY")
    /\ \A i \in 1..Len(log) :
          /\ log[i] = "T2_TRY" =>
                /\ \E j \in 1..(i - 1) : log[j] = "T1_FAIL"
                /\ fetched.type # "none"
                /\ ReadsAsDefense(tier1Error)
          /\ log[i] \in {"CTX_TRY", "SEARCH_TRY"} =>
                \E j \in 1..(i - 1) : log[j] = "T2_TRY"

\* tier 2 is running after an HTTP 403
C1_Witness ==
    /\ pc = "urlctx"
    /\ Logged("T2_TRY")
    /\ fetched.type = "response"
    /\ fetched.resp.status = 403

\* the network-level cause of a tier-1 failure is one the specification calls genuine
GenuineFailure ==
    \/ /\ fetched.type = "rejected"
       /\ fetched.err.cause \in {"dns", "refused", "timeout"}
    \/ /\ fetched.type = "response"
       /\ fetched.resp.status = 200
       /\ ~Includes(fetched.resp.contentType, "text/html")

\* C2: a DNS failure, a refused connection, a timeout or a non-HTML response
\* ends the run at once with that error, and tier 2 is never tried, whatever
\* the URL or the error text contains.
C2_GenuineFailureEndsRun ==
    GenuineFailure =>
        /\ ~Logged("T2_TRY")
        /\ result.kind = "error"
        /\ result.message = tier1Error

\* the tier-1 failure is one the specification calls defense-triggered
DefenseFailure ==
    \/ /\ fetched.type = "response"
       /\ fetched.resp.status \in {403, 429}
    \/ /\ fetched.type = "response"
       /\ fetched.resp.status = 200
       /\ Includes(fetched.resp.contentType, "text/html")
       /\ isCloudflareChallenge(fetched.resp.body)
    \/ /\ fetched.type # "none"
       /\ \E w \in {"blocked", "forbidden", "captcha"} :
             Includes(ToLowerCase(tier1Error), w)

\* C3: every tier-1 failure that is an HTTP 403, an HTTP 429, a challenge page
\* or an error whose text has blocked / forbidden / captcha starts tier 2
\* instead of failing the run.
C3_DefenseFailureEscalates ==
    DefenseFailure => Count(log, "T2_TRY") = 1

FailedWith403Forbidden ==
    /\ fetched.type = "response"
    /\ fetched.resp.status = 403
    /\ fetched.resp.statusText = "Forbidden"

\* C4: after a tier-1 "403 Forbidden" exactly one tier-2 attempt is made, no
\* terminal result exists before that attempt has ended, and tier 1 is run once.
C4_OneTier2AttemptAfter403 ==
    FailedWith403Forbidden =>
        /\ tier1Error = <<"HTTP ", "403", ": ", "Forbidden">>
        /\ Count(log, "T1_TRY") = 1
        /\ Count(log, "FETCH") = 1
        /\ Count(log, "T2_TRY") = 1
        /\ ScrapeEnded => (Logged("T2_OK") \/ Logged("T2_FAIL"))
        /\ pc \notin {"idle", "fetch"}

\* a run that began with a 403 Forbidden has ended after its tier-2 attempt
C4_Witness ==
    /\ FailedWith403Forbidden
    /\ pc = "done"
    /\ Logged("T2_FAIL")

\* C5: direct URL context is tried first and search grounding only after it
\* failed; a strategy that succeeds ends the pipeline with a success; manual
\* fallback is reached only when both strategies failed.
C5_StrategiesInOrder ==
    /\ \A i \in 1..Len(log) :
          log[i] = "SEARCH_TRY" => \E j \in 1..(i - 1) : log[j] = "CTX_FAIL"
    /\ (Logged("CTX_OK") \/ Logged("SEARCH_OK")) => result.kind = "success"
    /\ result.message = ManualPasteMessage =>
          (Logged("CTX_FAIL") /\ Logged("SEARCH_FAIL"))

\* C6: when both tiers failed the run ends with MANUAL_PASTE_REQUIRED, which the
\* route reports under that name with status 422; nothing else is reported
\* under that name.
C6_ManualPasteNamesExhaustionOnly ==
    /\ (Logged("T1_FAIL") /\ Logged("T2_FAIL")) =>
          /\ pc = "done"
          /\ result.kind = "error"
          /\ result.message = ManualPasteMessage
          /\ response.status = 422
          /\ response.error = <<"MANUAL_PASTE_REQUIRED">>
    /\ response.error = <<"MANUAL_PASTE_REQUIRED">> =>
          (Logged("T1_FAIL") /\ Logged("T2_FAIL"))

Methods == {"cheerio", "gemini-url-context", "gemini-search"}

EndsInSuccess == result.kind = "success" /\ result.method \in Methods

EndsInExhaustion == result.kind = "error" /\ result.message = ManualPasteMessage

\* the tier-1 error itself is thrown on, tier 2 not having been tried
EndsInDirectFetchError ==
    /\ result.kind = "error"
    /\ result.message = tier1Error
    /\ Logged("T1_FAIL")
    /\ ~Logged("T2_TRY")

\* C7 as stated: a run ends either in a success carrying its method or in the
\* named exhaustion failure, and in nothing else.
C7_TwoOutcomes ==
    ScrapeEnded => (EndsInSuccess /\ ~EndsInExhaustion) \/ (EndsInExhaustion /\ ~EndsInSuccess)

\* C7, amended: a run ends in exactly one of three outcomes: a success carrying
\* its method, the named exhaustion failure, or the direct fetch's own error
\* when that failure was not classified as defense-triggered.
C7_ThreeOutcomes ==
    ScrapeEnded =>
        Cardinality({o \in {"success", "exhaustion", "direct"} :
                        \/ o = "success" /\ EndsInSuccess
                        \/ o = "exhaustion" /\ EndsInExhaustion
                        \/ o = "direct" /\ EndsInDirectFetchError}) = 1

\* a run has ended with the direct fetch's own error
C7_Witness == pc = "done" /\ EndsInDirectFetchError

\* every word of detail is in the text
Carries(text, detail) == \A i \in 1..Len(detail) : Includes(text, detail[i])

\* C8: the exhaustion failure the caller receives carries the failures of the
\* tiers that were attempted, the reason of the last attempt included.
C8_ExhaustionCarriesDetail ==
    (EndsInExhaustion /\ response.status # 0) =>
        /\ Carries(response.message \o response.error, tier1Error)
        /\ Carries(response.message \o response.error, tier2Error)

\* C9: every network call of the pipeline is given up after a timeout, so a
\* run that waits for the network ends.
C9_EveryRunEnds == [](pc \in NetworkCalls => <>ScrapeEnded)

\* C10: a checkText loop reads one complete rule list from first to last, the
\* one in force when it started: the array it iterates is never changed, what
\* it has seen is a prefix of that list, and the list in force is always the
\* complete list of the file last loaded.
C10_OneCompleteRuleSet ==
    /\ heap[rules] = LoadedRules(file)
    /\ \A q \in Requests :
          evals[q].state = "running" =>
              /\ evals[q].before \in RuleLists
              /\ heap[evals[q].arr] = evals[q].before
              /\ evals[q].seen = SubSeq(evals[q].before, 1, evals[q].idx)

\* a loop has read its whole two-rule list although a reload put another list
\* in force meanwhile
C10_Witness ==
    \E q \in Requests :
        /\ evals[q].state = "running"
        /\ evals[q].overtaken
        /\ Len(evals[q].before) = 2
        /\ evals[q].seen = evals[q].before
        /\ heap[rules] # evals[q].before
        /\ Len(heap[rules]) > 0

(***************************************************************************)
(* Properties of checkText                                                 *)
(***************************************************************************)

\* the issues of the list that carry the rule's id, in their order
IssuesOf(issues, id) == SelectSeq(issues, LAMBDA i : i.rule_id = id)

\* the rule takes part in a call with this content type and its pattern compiles
Evaluated(rule, contentType) ==
    Includes(AppliesTo(rule), contentType) /\ Compiles(rule.pattern)

\* C11: a rule whose pattern does not compile is skipped: the rule list that
\* holds it is loaded whole, a call over that list returns instead of throwing,
\* the rule contributes no issue, and every other rule of the list that takes
\* part in the call reports all the matches it reports without that rule.
C11_BadPatternSkipped ==
    (lastCall.made /\ \E k \in 1..Len(activeRules) : ~Compiles(activeRules[k].pattern)) =>
        /\ ~lastCall.threw
        /\ \A k \in 1..Len(activeRules) :
              LET rule == activeRules[k] IN
              /\ ~Compiles(rule.pattern) => IssuesOf(lastCall.issues, rule.id) = <<>>
              /\ (Evaluated(rule, lastCall.contentType) /\ ~TrimIsEmpty(lastCall.text)) =>
                    IssuesOf(lastCall.issues, rule.id) =
                        checkText(<<rule>>, lastCall.text, lastCall.contentType, <<>>).issues

\* a call met the uncompilable rule first and then reported the match of the
\* rule that follows it
C11_Witness ==
    /\ lastCall.made
    /\ Len(activeRules) = 2
    /\ activeRules[1].id = "broken_001"
    /\ Includes(AppliesTo(activeRules[1]), lastCall.contentType)
    /\ activeRules[2].id = "amount_001"
    /\ Len(lastCall.issues) = 1
    /\ lastCall.issues[1].rule_id = "amount_001"

\* C12: checkText is a function of the rule list, the text and the content
\* type alone: a call returns what a first call on a new engine returns for
\* the same arguments, so a repeated request gets the same issues in the same
\* order as its first call, whatever calls ran before or between them.
C12_SameInputsSameIssues ==
    /\ lastCall.made =>
          /\ ~lastCall.threw
          /\ lastCall.issues =
                 checkText(activeRules, lastCall.text, lastCall.contentType, <<>>).issues
    /\ (lastCall.made /\ probeFirst.made /\ IsProbe(lastCall.text, lastCall.contentType)) =>
          /\ lastCall.threw = probeFirst.threw
          /\ lastCall.issues = probeFirst.issues

\* a request that returned two issues is repeated after another request
\* returned issues of its own
C12_Witness ==
    /\ probeFirst.made
    /\ between
    /\ lastCall.made
    /\ IsProbe(lastCall.text, lastCall.contentType)
    /\ Len(probeFirst.issues) = 2
    /\ probeFirst.issues[1].rule_id # probeFirst.issues[2].rule_id

\* the rule's applies_to is left out or is an empty list
AppliesToAll(rule) == ~rule.applies_to.has \/ rule.applies_to.list = <<>>

\* C13: a rule with a non-empty applies_to list produces issues for a request
\* only if the list contains the request's content-type tag, and a rule whose
\* applies_to is absent or empty is evaluated for every tag a caller passes:
\* it reports its matches as a rule listing that tag does.
C13_AppliesToGate ==
    (lastCall.made /\ ~TrimIsEmpty(lastCall.text)) =>
        \A k \in 1..Len(activeRules) :
            LET rule == activeRules[k]
                listing == [rule EXCEPT !.applies_to = Listed(<<lastCall.contentType>>)] IN
            /\ (~AppliesToAll(rule) /\ IssuesOf(lastCall.issues, rule.id) # <<>>) =>
                  Includes(rule.applies_to.list, lastCall.contentType)
            /\ AppliesToAll(rule) =>
                  IssuesOf(lastCall.issues, rule.id) =
                      checkText(<<listing>>, lastCall.text, lastCall.contentType, <<>>).issues

\* an exception string of the rule lies, whatever its case, within
\* ContextChars characters before or after the word at place i
NearException(text, i, rule) ==
    \E j \in 1..Len(text), k \in 1..Len(Exceptions(rule)) :
        /\ LowerWord(text[j]) = LowerWord(Exceptions(rule)[k])
        /\ Offset(text, j) >= Offset(text, i) - ContextChars
        /\ Offset(text, j) + CharLen(text[j])
               <= Offset(text, i) + CharLen(text[i]) + ContextChars

\* the call returned an issue of the rule for the match at place i
Emitted(rule, i) ==
    \E n \in 1..Len(lastCall.issues) :
        /\ lastCall.issues[n].rule_id = rule.id
        /\ lastCall.issues[n].position = Offset(lastCall.text, i)

\* C14: for every match of an evaluated rule, an issue is emitted exactly when
\* no context_exceptions string of the rule lies, compared without regard to
\* case, within 100 characters before or after that match; each match is
\* decided by its own surroundings.
C14_VetoPerMatch ==
    lastCall.made =>
        \A k \in 1..Len(activeRules), i \in 1..Len(lastCall.text) :
            LET rule == activeRules[k] IN
            (Evaluated(rule, lastCall.contentType) /\ Matches(rule.pattern, lastCall.text[i])) =>
                (Emitted(rule, i) <=> ~NearException(lastCall.text, i, rule))

\* of two matches of one rule the one 100 characters after the exception is
\* vetoed and the one further away is emitted
C14_Witness ==
    /\ lastCall.made
    /\ lastCall.text = <<"Promo Code", "lorem90", "aed500", "lorem91", "AED500">>
    /\ \E k \in 1..Len(activeRules) :
          /\ activeRules[k].id = "amount_001"
          /\ ~Emitted(activeRules[k], 3)
          /\ Emitted(activeRules[k], 5)

(***************************************************************************)
(* Properties of the aggregator                                            *)
(***************************************************************************)

\* the issues of severity s in the report's buckets
InReport(s) ==
    Cardinality({b \in {<<k, n>> : k \in 1..Len(Buckets), n \in 1..(Len(FoundKinds) * MaxFound + 2)} :
                    /\ b[2] <= Len(check.issues[b[1]])
                    /\ check.issues[b[1]][b[2]].severity = s})

\* C15: the compliance score of a report is max(0, 100 - (20 critical +
\* 10 high + 5 medium + 2 low)) over the issues in the report's buckets; a
\* report with 1 critical, 2 high, 0 medium and 3 low issues scores 54; the
\* score is an integer from 0 to 100.
C15_ScoreFormula ==
    check.built =>
        LET penalty == 20 * InReport("critical") + 10 * InReport("high")
                           + 5 * InReport("medium") + 2 * InReport("low") IN
        /\ check.metrics.complianceScore = (IF penalty >= 100 THEN 0 ELSE 100 - penalty)
        /\ check.metrics.complianceScore \in 0..100
        /\ check.metrics.criticalIssues = InReport("critical")
        /\ check.metrics.highIssues = InReport("high")
        /\ check.metrics.mediumIssues = InReport("medium")
        /\ check.metrics.lowIssues = InReport("low")
        /\ (/\ InReport("critical") = 1 /\ InReport("high") = 2
            /\ InReport("medium") = 0 /\ InReport("low") = 3) =>
               check.metrics.complianceScore = 54

\* a report with 1 critical, 2 high, 0 medium and 3 low issues was returned
C15_Witness ==
    /\ check.pc = "done"
    /\ check.ended = "report"
    /\ InReport("critical") = 1
    /\ InReport("high") = 2
    /\ InReport("medium") = 0
    /\ InReport("low") = 3
    /\ check.metrics.complianceScore = 54

\* the buckets of the report that hold the issue
BucketsHolding(issue) ==
    {k \in 1..Len(Buckets) : Includes(check.issues[k], issue)}

\* the issues of all buckets together
Categorized == Len(Flat(check.issues, 1))

\* C16: every issue handed to categorization is in exactly one bucket of the
\* report, the bucket of the first entry of the ordered list that matches its
\* category (or type), and the buckets hold nothing else, so totalIssues
\* counts exactly the issues that were categorized.
C16_ExactlyOneBucket ==
    check.built =>
        /\ \A n \in 1..Len(check.all) :
              \E k \in 1..Len(Buckets) :
                  /\ BucketsHolding(check.all[n]) = {k}
                  /\ Buckets[k] = BucketOf(check.all[n])
        /\ Categorized = Len(check.all)
        /\ check.metrics.totalIssues = Len(check.all)

\* the prefixes of rule ids that belong to templates only
TemplateOnly == {"variable_format", "font_family", "color_validation", "staging_url"}

\* C17: the report of a check in URL mode holds no issue whose rule_id starts
\* with a template-only prefix.
C17_NoTemplateIssuesInUrlMode ==
    (check.built /\ check.mode \in {"url", "page"}) =>
        \A k \in 1..Len(Buckets) : \A n \in 1..Len(check.issues[k]) :
            \A prefix \in TemplateOnly : ~StartsWith(check.issues[k][n].rule_id, prefix)

\* C18: whatever the grammar/tone collaborator did, once its call has settled
\* the check has a compliance score and an issue list, and it does not end in
\* an error raised while the collaborator's result is used.
C18_CollaboratorNeverFailsCheck ==
    check.pc \in {"saving", "done"} =>
        /\ check.built
        /\ check.ended # "type_error"

(***************************************************************************)
(* Properties of validateCustomVariables                                   *)
(***************************************************************************)

\* the issues returned for the token at place i
IssuesAt(i) == SelectSeq(fieldIssues.issues, LAMBDA issue : issue.at = i)

Whitelisted(name) == Includes(allowedVariables, name)

\* the name is a whitelisted name but for the case of its letters; by the
\* specification's example "lastname" is one of "Last Name"
CaseMismatch(name) ==
    /\ ~Whitelisted(name)
    /\ \/ \E k \in 1..Len(allowedVariables) : LowerName(allowedVariables[k]) = LowerName(name)
       \/ name = "lastname"

\* the list is one issue of this rule and severity
OneIssue(issues, id, severity) ==
    /\ Len(issues) = 1
    /\ issues[1].rule_id = id
    /\ issues[1].severity = severity

\* C19: a merge-field token gets exactly one outcome: without a space after
\* the colon one critical spacing issue that suggests the token with one
\* space; with one space, one critical case-mismatch issue if the name is a
\* case mismatch of a whitelisted name ("[Field: lastname]" with "Last Name"
\* allowed), one medium issue if the name is unknown, and no issue if the name
\* is whitelisted.
C19_OneOutcomePerToken ==
    fieldIssues.done =>
        \A i \in 1..Len(fieldText) :
            LET t == fieldText[i] IN
            /\ (t.ws = <<>> /\ t.name # "") =>
                  /\ OneIssue(IssuesAt(i), "variable_format_001", "critical")
                  /\ IssuesAt(i)[1].suggestion = <<"[Field:", " ", t.name, "]">>
            /\ (t.ws = <<" ">> /\ t.name # "" /\ ~t.trail) =>
                  /\ CaseMismatch(t.name) =>
                        OneIssue(IssuesAt(i), "variable_format_002", "critical")
                  /\ (~CaseMismatch(t.name) /\ ~Whitelisted(t.name)) =>
                        OneIssue(IssuesAt(i), "variable_format_003", "medium")
                  /\ Whitelisted(t.name) => IssuesAt(i) = <<>>

\* C20: a token with a name gets no issue only if exactly one space follows
\* the colon and the name is a whitelist entry, letter for letter.
C20_AcceptedOnlyIfExact ==
    fieldIssues.done =>
        \A i \in 1..Len(fieldText) :
            (fieldText[i].name # "" /\ IssuesAt(i) = <<>>) =>
                /\ fieldText[i].ws = <<" ">>
                /\ Whitelisted(fieldText[i].name)
\* the words of a document outside its tags
BodyText(html) == SelectSeq(html, LAMBDA w : w \notin Markup)

\* the file check ran to its end on the page
PageChecked == pageCheck.done /\ ~pageCheck.failed

\* C21: detectLanguages returns a non-empty ordered list: a declared language
\* is first and the other script is added only if it occurs in the body text;
\* with no declaration the scripts are ordered by the offset of their first
\* character; text in one script only gives a single-language result.
C21_DetectLanguagesOrdered ==
    PageChecked =>
        LET html == page.html
            languages == pageCheck.languages
            declared == ToLowerCase(langAttrMatch(html))
            body == BodyText(html)
        IN  /\ Len(languages) >= 1
            /\ StartsWith(declared, "en") =>
                   /\ languages[1] = "eng"
                   /\ Includes(languages, "ara") => TestArabic(body)
            /\ StartsWith(declared, "ar") =>
                   /\ languages[1] = "ara"
                   /\ Includes(languages, "eng") => TestLatin(body)
            /\ (~StartsWith(declared, "en") /\ ~StartsWith(declared, "ar")) =>
                   /\ (TestLatin(html) /\ TestArabic(html)) =>
                          languages = IF SearchLatin(html) < SearchArabic(html)
                                      THEN <<"eng", "ara">> ELSE <<"ara", "eng">>
                   /\ (TestLatin(html) /\ ~TestArabic(html)) => languages = <<"eng">>
                   /\ (TestArabic(html) /\ ~TestLatin(html)) => languages = <<"ara">>

\* the places of the pieces equal to w, from left to right
RECURSIVE PlacesOf(_, _, _)
PlacesOf(html, w, i) ==
    IF i > Len(html) THEN <<>>
    ELSE (IF html[i] = w THEN <<i>> ELSE <<>>) \o PlacesOf(html, w, i + 1)

\* the place in the document of the content each issue matched: the amount
\* issues come first, then the merge-field issues, each from left to right
MatchedPlaces(html) == PlacesOf(html, "AED500", 1) \o PlacesOf(html, "[Field:Name]", 1)

\* the file check split the page into two language sections and tagged its issues
PageTagged == PageChecked /\ Len(pageCheck.languages) > 1 /\ page.html # <<>>

\* C22: in a bilingual document an issue whose matched content lies before the
\* split point is tagged with the language of the first section, and one whose
\* matched content lies at or after it with the language of the second section.
C22_TaggedBySection ==
    PageTagged =>
        LET places == MatchedPlaces(page.html)
            splitPoint == TextLength(pageCheck.sections.english) IN
        \A k \in 1..Len(pageCheck.issues) :
            pageCheck.issues[k].language =
                IF Offset(page.html, places[k]) < splitPoint THEN "english" ELSE "arabic"

\* the script that decides the language of a snippet, if one does
ScriptOf(snippet) ==
    IF TestArabic(snippet) THEN "arabic"
    ELSE IF TestLatin(snippet) THEN "english"
    ELSE "both"

\* C23: language tagging never fails and tries its strategies in priority
\* order: the recorded offset against the section boundary, then the script of
\* the context snippet, then the script of the matched text; a later strategy
\* is consulted whenever an earlier one cannot decide, and the tag is "both"
\* only when none of the three decides.
C23_StrategiesInOrder ==
    PageTagged =>
        LET english == pageCheck.sections.english
            boundaryKnown == english # <<>> /\ IsPrefix(english, page.html) IN
        \A k \in 1..Len(pageCheck.issues) :
            LET issue == pageCheck.issues[k] IN
            issue.language =
                IF issue.position.has /\ boundaryKnown
                THEN IF issue.position.at < TextLength(english) THEN "english"
                     ELSE "arabic"
                ELSE IF ScriptOf(issue.context) # "both" THEN ScriptOf(issue.context)
                ELSE ScriptOf(issue.found)
\* the prefixes of the rule ids of the template checks, as the text-check
\* verification script tests them
TemplateRuleIds == {"variable_format", "font_family", "color_", "staging_url"}

\* the report of a text check with the content type holds an issue of a template check
TemplateIssueIn(contentType) ==
    /\ check.built /\ check.mode = "text" /\ check.contentType = contentType
    /\ \E k \in 1..Len(Buckets) : \E n \in 1..Len(check.issues[k]) :
           \E prefix \in TemplateRuleIds : StartsWith(check.issues[k][n].rule_id, prefix)

\* C24: a text check submitted with content_type 'web' returns no issue whose
\* rule_id starts with variable_format, font_family, color_ or staging_url,
\* whatever the text contains.
C24_NoTemplateIssuesForWebText == ~TemplateIssueIn("web")
\* validateLinks went through the href of the a element
LinkChecked == linkIssues.done /\ anchor.href.has /\ ~IsBlank(anchor.href.list)

MalformedIssues ==
    {k \in 1..Len(linkIssues.issues) :
        /\ linkIssues.issues[k].rule_id = "url_malformed_001"
        /\ linkIssues.issues[k].severity = "critical"}

\* C25: white space in an href is tolerated only inside a recognized merge
\* field: a link with white space anywhere outside one gets a critical
\* malformed-URL issue, also when the href holds a merge field elsewhere.
C25_WhitespaceOnlyInsideField ==
    (LinkChecked /\ Includes(anchor.href.list, " ")) => MalformedIssues # {}
\* the findings about the length of the meta description, of both checks
LengthFindings ==
    {k \in 1..Len(seo.issues) :
        seo.issues[k].rule_id \in {"seo_meta_description_short", "seo_meta_description_long"}}
    \cup
    {-k : k \in {j \in 1..Len(seo.metaDescription.issues) :
        seo.metaDescription.issues[j] \in
            {"Meta description is too short (recommended: 150-160 characters)",
             "Meta description is too long and may be truncated"}}}

\* C26: the SEO analysis judges the length of the meta description against
\* the range 100 to 160 characters: a length within 100..160 gets no length
\* finding, a shorter or longer one gets one.
C26_DescriptionLengthRange ==
    (seo.done /\ description.length > 0) =>
        (LengthFindings = {} <=> description.length \in 100..160)
\* the place of a severity in the order critical, high, medium, low, with
\* every other severity behind them
SeverityRank(severity) ==
    CASE severity \in {"critical", "Critical"} -> 0
      [] severity \in {"high", "High"} -> 1
      [] severity \in {"medium", "Medium"} -> 2
      [] severity \in {"low", "Low"} -> 3
      [] OTHER -> 4

\* the issues of the report that pass the filters now set, in bucket order
Selected == SelectSeq(EntriesFrom(view.result, 1), LAMBDA i : PassesFilters(view, i))

Succeeded == pc = "done" /\ response.status = 200

\* C28: a successful check-url response reports tier 1 exactly when the direct
\* fetch produced the content and tier 2 exactly when assisted extraction
\* produced it; no successful response reports tier 3, and a run in which both
\* tiers failed is answered with the failed MANUAL_PASTE_REQUIRED response.
C28_TierOfSuccess ==
    /\ Succeeded =>
          /\ response.tier \in {1, 2}
          /\ response.tier = 1 <=> Logged("T1_OK")
          /\ response.tier = 2 <=> Logged("T2_OK")
          /\ response.tier = 1 <=> response.method = "cheerio"
          /\ Logged("T1_OK") =>
                /\ fetched.type = "response"
                /\ fetched.resp.status \in 200..299
                /\ ~Logged("T2_TRY")
          /\ Logged("T2_OK") => Logged("T1_FAIL") /\ ~Logged("T2_FAIL")
    /\ response.tier # 3
    /\ (pc = "done" /\ Logged("T2_FAIL")) =>
          /\ response.status = 422
          /\ response.error = <<"MANUAL_PASTE_REQUIRED">>
          /\ response.tier = 0

\* a success answered from the second strategy of assisted extraction
C28_Witness ==
    /\ Succeeded
    /\ response.tier = 2
    /\ response.method = "gemini-search"
    /\ Logged("SEARCH_OK")

\* the rule list in force: what this.rules refers to
ActiveRules == heap[rules]

\* C30: after any sequence of loads and reloads the rule list in force is the
\* rule list of the rules file as it was last read when that read parsed (the
\* empty list for a document that has no rules key), and is empty when the
\* file was missing or did not parse; nothing of an earlier file is kept.
C30_ActiveRulesAreLastRead ==
    /\ file.kind = "rules" => ActiveRules = file.rules
    /\ file.kind \in {"missing", "unparsable", "no_rules_key"} => ActiveRules = <<>>
    /\ \A i \in 1..Len(ActiveRules) :
          file.kind = "rules" /\ ActiveRules[i] \in Range(file.rules)

\* a reload that did not parse fell inside a loop over a two-rule list: the
\* loop still has its list, the list in force is empty
C30_Witness ==
    \E q \in Requests :
        /\ evals[q].state = "running"
        /\ evals[q].overtaken
        /\ Len(evals[q].before) = 2
        /\ file.kind = "unparsable"
        /\ ActiveRules = <<>>

\* the match loop of the rule has been left
LoopLeft == scan.state = "left"

\* the pattern of the loop can match the empty string
MatchesEmpty(pattern) == MatchLengthAt(pattern, <<>>, 0) = 0

\* C29: the match loop of every rule ends, for every pattern and every text,
\* a pattern that can match the empty string included.
C29_MatchLoopEnds == <>LoopLeft

\* the loop of a pattern that cannot match the empty string ends
MatchLoopEndsWithoutEmptyMatch == ~MatchesEmpty(scan.pattern) => <>LoopLeft

\* every turn of such a loop moves lastIndex to the right
AdvancesWithoutEmptyMatch ==
    [][(ExecMatches /\ ~MatchesEmpty(scan.pattern)) => scan'.lastIndex > scan.lastIndex]_vars

\* the loop has taken a turn on an empty match and lastIndex is where it was
EmptyMatchTaken ==
    /\ scan.state = "running"
    /\ pushed >= 2
    /\ scan.last.length = 0
    /\ scan.lastIndex = scan.last.index

====
